---- MODULE Spec2Model ----
(***************************************************************************)
(* The n-gram search core of deepseek-history-viewer: build_index          *)
(* (src/src/indexer.rs), SearchEngine (src/src/search.rs), the search API  *)
(* handler (src/src/server.rs) and the desktop import / search commands    *)
(* (src/src/tauri.rs), over one index directory; beside it the walk of     *)
(* extract_messages step by step, the parallel page generation of          *)
(* generate_site (src/src/generator.rs), and the sequencing of the import   *)
(* command and of the start of the server binary (src/src/main.rs).         *)
(*                                                                         *)
(* A text is a sequence of code points, each written as a one-character    *)
(* string; a Cyrillic code point, which a string of the module cannot      *)
(* hold, is written Cy(t) with t its transliteration.  Scores are          *)
(* integers: the f32 score scaled by ScoreScale.                           *)
(***************************************************************************)
EXTENDS Integers, Sequences, FiniteSets, TLC

VARIABLES
    input,      \* the conversations file: the names of its conversations, in order
    site,       \* the generated site: the conversations that have a page, in order
    disk,       \* the index directory: exists, meta.json, segment files
    pc,         \* where the import / build_index run stands
    idx,        \* build_index: the loop index of `for (idx, conv) in ...`
    writer,     \* build_index: the builder's Index handle and IndexWriter
    engine,     \* the long-lived SearchEngine of the server, or NoEngine
    openedBefore, \* the engine was open when the running import started
    resp,       \* what the most recent call returned
    \* extract_messages, step by step
    tree,       \* the mapping that is walked
    frames,     \* the call stack: one frame per running call of extract_messages
    buffer,     \* the content buffer
    \* generate_site: the parallel page generation
    totalConvs, \* total: conversations.len()
    remaining,  \* the conversations no worker has taken yet
    counter,    \* the usize behind the Mutex
    workers,    \* where each worker thread stands in the closure
    logged,     \* the values written to the log, in order
    skipped,    \* some conversation gave no page (the closure returned None)
    \* process_conversations_file and the main of the server binary
    importFile, \* what the path given to the command holds
    step,       \* where the command, or main, stands
    events,     \* the percents of the import-progress events emitted, in order
    config,     \* the configuration: in memory, and as saved
    dist,       \* the generated site directory
    indexDir,   \* the index directory
    ret,        \* what the command, or main, returned
    before,     \* config, dist and indexDir when the command, or main, started
    calls       \* main: the calls made, in order

mainVars == <<input, site, disk, pc, idx, writer, engine, openedBefore, resp>>

walkVars == <<tree, frames, buffer>>

genVars == <<totalConvs, remaining, counter, workers, logged, skipped>>

appVars == <<importFile, step, events, config, dist, indexDir, ret, before, calls>>

\* what the builds and searches leave alone
otherVars == <<walkVars, genVars, appVars>>

vars == <<mainVars, walkVars, genVars, appVars>>

----------------------------------------------------------------------------
(* Bounds of the model *)

\* the most conversations of the short corpus in one input file
MaxConvs == 2

\* the most frames of extract_messages the call stack holds
MaxDepth == 5

\* the most conversations of a file whose pages are generated
MaxPages == 200

\* the worker threads of the parallel page generation
GenThreads == 2

----------------------------------------------------------------------------
(* Small helpers *)

Min(a, b) == IF a <= b THEN a ELSE b

Range(s) == {s[i] : i \in DOMAIN s}

Take(s, n) == SubSeq(s, 1, Min(n, Len(s)))

RECURSIVE SumSeq(_)
SumSeq(s) == IF s = <<>> THEN 0 ELSE s[1] + SumSeq(Tail(s))

RECURSIVE Flatten(_)
Flatten(ss) == IF ss = <<>> THEN <<>> ELSE ss[1] \o Flatten(Tail(ss))

Rep(c, n) == [i \in 1..n |-> c]

None == [some |-> FALSE]
Some(x) == [some |-> TRUE, v |-> x]

----------------------------------------------------------------------------
(* serde_json::Value, as far as build_index looks into it *)

JNull == [t |-> "null"]
JNum(n) == [t |-> "num", n |-> n]
JArr(a) == [t |-> "arr", a |-> a]
JObj(o) == [t |-> "obj", o |-> o]
\* a string that is a text (a sequence of code points), and a string used as a
\* node id, which the model writes as a TLA+ string so that it can key a mapping
JStr(s) == [t |-> "str", v |-> s]
JId(s) == [t |-> "str", id |-> s]

\* Value::get(key): Some(member) of an object that has the key
JHas(val, key) == val.t = "obj" /\ key \in DOMAIN val.o
JGet(val, key) == val.o[key]

\* value.get(key).and_then(|x| x.as_array()) is Some
JHasArr(val, key) == JHas(val, key) /\ JGet(val, key).t = "arr"

\* value.get(key).and_then(|x| x.as_str()) is Some
JHasStr(val, key) == JHas(val, key) /\ JGet(val, key).t = "str"

----------------------------------------------------------------------------
(* Texts *)

\* a Cyrillic code point, named by its transliteration
Cy(t) == "cy-" \o t

\* a Cyrillic text, its code points named by their transliterations
Cyr(w) == [i \in DOMAIN w |-> IF w[i] = " " THEN " " ELSE Cy(w[i])]

\* char::to_lowercase on the code points the model uses
Lower(c) ==
    CASE c = "A" -> "a"
      [] c = "B" -> "b"
      [] c = "C" -> "c"
      [] c = "Σ" -> "σ"
      [] c = Cy("O") -> Cy("o")
      [] c = Cy("P") -> Cy("p")
      [] c = Cy("F") -> Cy("f")
      [] c = Cy("Ch") -> Cy("ch")
      [] OTHER -> c

\* char::to_uppercase on the code points the model uses
Upper(c) ==
    CASE c = "a" -> "A"
      [] c = "b" -> "B"
      [] c = "c" -> "C"
      [] c = "σ" -> "Σ"
      [] c = "ς" -> "Σ"
      [] c = Cy("o") -> Cy("O")
      [] c = Cy("p") -> Cy("P")
      [] c = Cy("f") -> Cy("F")
      [] c = Cy("ch") -> Cy("Ch")
      [] OTHER -> c

\* the Unicode properties Cased and Case_Ignorable on these code points
Cased(c) == Lower(c) # c \/ Upper(c) # c

CaseIgnorable(c) == c \in {".", "'"}

\* the Final_Sigma condition of str::to_lowercase at position i of s: a cased
\* letter before it and none after it, case-ignorable code points skipped
IsWordFinal(s, i) ==
    /\ \E j \in 1..(i - 1) :
          Cased(s[j]) /\ \A k \in (j + 1)..(i - 1) : CaseIgnorable(s[k])
    /\ ~\E j \in (i + 1)..Len(s) :
          Cased(s[j]) /\ \A k \in (i + 1)..(j - 1) : CaseIgnorable(s[k])

\* str::to_lowercase: code point by code point, but a capital sigma at the end
\* of a word becomes the final sigma
ToLowercase(s) ==
    [i \in DOMAIN s |->
        IF s[i] = "Σ" /\ IsWordFinal(s, i) THEN "ς" ELSE Lower(s[i])]

\* the LowerCaser token filter of the analyzer: code point by code point, with
\* no special case for the sigma
LowerCaser(s) == [i \in DOMAIN s |-> Lower(s[i])]

IsWhitespace(c) == c = " "

DigitChar(d) == <<"0", "1", "2", "3", "4", "5", "6", "7", "8", "9">>[d + 1]

\* the decimal text of a usize, as format!("{}") writes it
RECURSIVE Decimal(_)
Decimal(n) ==
    IF n < 10 THEN <<DigitChar(n)>>
    ELSE Decimal(n \div 10) \o <<DigitChar(n % 10)>>

\* t occurs in s as a contiguous run of code points
IsSubstring(t, s) ==
    \E i \in 1..(Len(s) - Len(t) + 1) : SubSeq(s, i, i + Len(t) - 1) = t

----------------------------------------------------------------------------
(* indexer.rs: extract_messages *)

\* the inner loop over the fragments of one message
RECURSIVE AppendFragments(_, _)
AppendFragments(fragments, content) ==
    IF fragments = <<>> THEN content
    ELSE LET fragment == Head(fragments)
             pushed == IF JHasStr(fragment, "content")
                       THEN content \o JGet(fragment, "content").v \o <<" ">>
                       ELSE content
         IN  AppendFragments(Tail(fragments), pushed)

\* a traversal that gives up the siblings after a child it cannot visit
RECURSIVE extract_messages_until_unknown(_, _, _)
extract_messages_until_unknown(mapping, children, content) ==
    IF children = <<>> THEN content
    ELSE LET child_id == Head(children)
         IN  IF child_id.t = "str" /\ child_id.id \in DOMAIN mapping
             THEN LET child == mapping[child_id.id]
                      withMessage ==
                          IF JHas(child, "message")
                             /\ JHasArr(JGet(child, "message"), "fragments")
                          THEN AppendFragments(
                                   JGet(JGet(child, "message"), "fragments").a, content)
                          ELSE content
                      visited ==
                          IF JHasArr(child, "children")
                          THEN extract_messages_until_unknown(
                                   mapping, JGet(child, "children").a, withMessage)
                          ELSE withMessage
                  IN  extract_messages_until_unknown(mapping, Tail(children), visited)
             ELSE content

\* mapping is the Map of the conversation's mapping object, children a slice of
\* Values, content the buffer; the value is the buffer afterwards
RECURSIVE extract_messages(_, _, _)
extract_messages(mapping, children, content) ==
    IF children = <<>> THEN content
    ELSE LET child_id == Head(children)
             visited ==
                 IF child_id.t = "str" /\ child_id.id \in DOMAIN mapping
                 THEN LET child == mapping[child_id.id]
                          withMessage ==
                              IF JHas(child, "message")
                                 /\ JHasArr(JGet(child, "message"), "fragments")
                              THEN AppendFragments(
                                       JGet(JGet(child, "message"), "fragments").a,
                                       content)
                              ELSE content
                      IN  IF JHasArr(child, "children")
                          THEN extract_messages(mapping, JGet(child, "children").a,
                                                withMessage)
                          ELSE withMessage
                 ELSE content
         IN  extract_messages(mapping, Tail(children), visited)

\* build_index lines 78-87: the content of one conversation
FullContent(conv) ==
    IF conv.mapping.t = "obj"
       /\ JHas(conv.mapping, "root")
       /\ JHasArr(JGet(conv.mapping, "root"), "children")
    THEN extract_messages(conv.mapping.o,
                          JGet(JGet(conv.mapping, "root"), "children").a, <<>>)
    ELSE <<>>

----------------------------------------------------------------------------
(* generator.rs: extract_and_render_messages *)

\* 179-209: one Message per fragment; content is the fragment content that
\* content_html renders, empty if the fragment has no string content
RECURSIVE RenderFragments(_, _)
RenderFragments(fragments, messages) ==
    IF fragments = <<>> THEN messages
    ELSE LET fragment == Head(fragments)
             msg_type == IF JHasStr(fragment, "type") THEN JGet(fragment, "type").v
                         ELSE <<"U", "N", "K", "N", "O", "W", "N">>
             content  == IF JHasStr(fragment, "content") THEN JGet(fragment, "content").v
                         ELSE <<>>
         IN  RenderFragments(Tail(fragments),
                             Append(messages, [message_type |-> msg_type,
                                               content |-> content]))

\* a traversal that renders the children of a node before the node itself
RECURSIVE extract_messages_children_first(_, _, _)
extract_messages_children_first(mapping, children, messages) ==
    IF children = <<>> THEN messages
    ELSE LET child_id == Head(children)
             visited ==
                 IF child_id.t = "str" /\ child_id.id \in DOMAIN mapping
                 THEN LET child == mapping[child_id.id]
                          below ==
                              IF JHasArr(child, "children")
                              THEN extract_messages_children_first(
                                       mapping, JGet(child, "children").a, messages)
                              ELSE messages
                      IN  IF JHas(child, "message")
                             /\ JHasArr(JGet(child, "message"), "fragments")
                          THEN RenderFragments(
                                   JGet(JGet(child, "message"), "fragments").a, below)
                          ELSE below
                 ELSE messages
         IN  extract_messages_children_first(mapping, Tail(children), visited)

\* 167-218: messages is the Vec<Message>; the value is the Vec afterwards
RECURSIVE extract_messages_recursive(_, _, _)
extract_messages_recursive(mapping, children, messages) ==
    IF children = <<>> THEN messages
    ELSE LET child_id == Head(children)
             visited ==
                 IF child_id.t = "str" /\ child_id.id \in DOMAIN mapping
                 THEN LET child == mapping[child_id.id]
                          withMessage ==
                              IF JHas(child, "message")
                                 /\ JHasArr(JGet(child, "message"), "fragments")
                              THEN RenderFragments(
                                       JGet(JGet(child, "message"), "fragments").a,
                                       messages)
                              ELSE messages
                      IN  IF JHasArr(child, "children")
                          THEN extract_messages_recursive(
                                   mapping, JGet(child, "children").a, withMessage)
                          ELSE withMessage
                 ELSE messages
         IN  extract_messages_recursive(mapping, Tail(children), visited)

\* 145-165: the messages of one conversation's page
extract_and_render_messages(mapping) ==
    IF mapping.t = "obj"
       /\ JHas(mapping, "root")
       /\ JHasArr(JGet(mapping, "root"), "children")
    THEN extract_messages_recursive(mapping.o,
                                    JGet(JGet(mapping, "root"), "children").a, <<>>)
    ELSE <<>>

----------------------------------------------------------------------------

\* build_index line 77
ConvTitle(conv, i) ==
    IF conv.title.some THEN conv.title.v
    ELSE <<"C", "o", "n", "v", "e", "r", "s", "a", "t", "i", "o", "n", " ">>
         \o Decimal(i + 1)

----------------------------------------------------------------------------
(* The analyzer registered as "ngram2" *)

\* TextAnalyzer::builder(NgramTokenizer::new(min, max, prefix_only)).filter(LowerCaser)
NgramAnalyzer(min, max, prefix) ==
    [min_gram |-> min, max_gram |-> max, prefix_only |-> prefix, lower |-> TRUE]

MinGram == 2
MaxGram == 10

\* indexer.rs 64-66
IndexNgramTokenizer == NgramAnalyzer(MinGram, MaxGram, FALSE)

\* a query-side analyzer that starts at trigrams
SearchTrigramTokenizer == NgramAnalyzer(MinGram + 1, MaxGram, FALSE)

\* search.rs 31-33
SearchNgramTokenizer == NgramAnalyzer(MinGram, MaxGram, FALSE)

\* the (start, length) of every n-gram of a text of n code points
TokenSpans(cfg, n) ==
    {sp \in (1..n) \X (cfg.min_gram..cfg.max_gram) :
        /\ sp[1] + sp[2] - 1 <= n
        /\ cfg.prefix_only => sp[1] = 1}

\* the text of the token at a span
TokenText(cfg, text, sp) ==
    LET gram == SubSeq(text, sp[1], sp[1] + sp[2] - 1)
    IN  IF cfg.lower THEN LowerCaser(gram) ELSE gram

\* the token stream of the analyzer on a text, in the order the tokenizer
\* emits it: by start, then by length
Tokens(cfg, text) ==
    LET spans == TokenSpans(cfg, Len(text))
        rank(sp) == Cardinality({o \in spans :
                        o[1] < sp[1] \/ (o[1] = sp[1] /\ o[2] <= sp[2])})
    IN  [j \in 1..Cardinality(spans) |->
            TokenText(cfg, text, CHOOSE sp \in spans : rank(sp) = j)]

\* the postings of one field of one document, as indexing with the analyzer
\* writes them: whether the term is there, how often, and the number of tokens
\* of the field (the fieldnorm)
HasTerm(cfg, text, term) ==
    \E sp \in TokenSpans(cfg, Len(text)) : TokenText(cfg, text, sp) = term

TermFreq(cfg, text, term) ==
    Cardinality({sp \in TokenSpans(cfg, Len(text)) : TokenText(cfg, text, sp) = term})

FieldLen(cfg, text) == Cardinality(TokenSpans(cfg, Len(text)))

----------------------------------------------------------------------------
(* The index on disk and the handles on it *)

\* indexer.rs 46-55: the tokenizer each text field names in the schema
Schema == [title |-> "ngram2", content |-> "ngram2"]

TextFields == <<"title", "content">>

NoMeta == [present |-> FALSE]
Meta(schema, segments) == [present |-> TRUE, schema |-> schema, segments |-> segments]

\* an index directory that does not exist
NoDir == [exists |-> FALSE, meta |-> NoMeta, files |-> FALSE]

\* the tokenizers an Index handle knows besides the built-in ones: none
NoTokenizers == [n \in {} |-> NgramAnalyzer(0, 0, FALSE)]

Register(tokenizers, name, analyzer) ==
    [n \in DOMAIN tokenizers \cup {name} |->
        IF n = name THEN analyzer ELSE tokenizers[n]]

NoEngine == [open |-> FALSE]

\* the threads of index.writer(50_000_000), each writing a segment of its own
NumThreads == 2

\* build_index 89-95: the document of conversation i (from 0) of the file: its
\* stored fields and, for each text field, the analyzer of the builder's handle
\* that writes the field's postings
Document(conv, i, tokenizers) ==
    [conversation_id |-> conv.id,
     title    |-> ConvTitle(conv, i),
     content  |-> FullContent(conv),
     date     |-> IF conv.inserted_at.some THEN conv.inserted_at.v ELSE <<>>,
     analyzer |-> [f \in Range(TextFields) |-> tokenizers[Schema[f]]]]

\* the one term of a STRING field (conversation_id, date) of a document: the
\* whole value
RawTerm(doc, field) ==
    IF field = "conversation_id" THEN <<doc.conversation_id>> ELSE doc[field]

\* the postings of a field of a document of a segment: of a text field as its
\* analyzer wrote them, of a STRING field the one term
DocHasTerm(doc, field, term) ==
    IF field \in DOMAIN doc.analyzer
    THEN HasTerm(doc.analyzer[field], doc[field], term)
    ELSE RawTerm(doc, field) = term

DocTermFreq(doc, field, term) ==
    IF field \in DOMAIN doc.analyzer
    THEN TermFreq(doc.analyzer[field], doc[field], term)
    ELSE IF RawTerm(doc, field) = term THEN 1 ELSE 0

DocFieldLen(doc, field) ==
    IF field \in DOMAIN doc.analyzer
    THEN FieldLen(doc.analyzer[field], doc[field])
    ELSE 1

----------------------------------------------------------------------------
(* search.rs: SearchEngine::search *)

TitleBoost == 2

\* the words of a query: the query grammar splits at whitespace
RECURSIVE SplitWords(_, _)
SplitWords(s, cur) ==
    IF s = <<>> THEN (IF cur = <<>> THEN <<>> ELSE <<cur>>)
    ELSE IF IsWhitespace(Head(s))
         THEN (IF cur = <<>> THEN <<>> ELSE <<cur>>) \o SplitWords(Tail(s), <<>>)
         ELSE SplitWords(Tail(s), Append(cur, Head(s)))

Words(q) == SplitWords(q, <<>>)

\* the fields of the schema by name (indexer.rs 43-56); "" for any other name
FieldNamed(name) ==
    CASE name = <<"t", "i", "t", "l", "e">> -> "title"
      [] name = <<"c", "o", "n", "t", "e", "n", "t">> -> "content"
      [] name = <<"d", "a", "t", "e">> -> "date"
      [] name = <<"c", "o", "n", "v", "e", "r", "s", "a", "t", "i", "o", "n", "_", "i", "d">>
           -> "conversation_id"
      [] OTHER -> ""

\* where the colon that ends a field name stands in a word: the first colon,
\* with text on both sides of it; 0 if the word has none (the queries of
\* Queries have no word that starts or ends with its first colon)
ColonAt(word) ==
    LET inner == {k \in 2..(Len(word) - 1) :
                     word[k] = ":" /\ \A j \in 1..(k - 1) : word[j] # ":"}
    IN  IF inner = {} THEN 0 ELSE CHOOSE k \in inner : TRUE

\* the query grammar reads name:value as a literal on the field of that name:
\* the error of a word, "none" if it has none
WordError(word) ==
    LET k == ColonAt(word)
    IN  IF k = 0 THEN "none"
        ELSE IF FieldNamed(SubSeq(word, 1, k - 1)) = ""
        THEN "QueryParserError::FieldDoesNotExist"
        ELSE "none"

\* the fields a word is searched in: the default fields, or the field it names
WordFields(word) ==
    IF ColonAt(word) = 0 THEN TextFields
    ELSE <<FieldNamed(SubSeq(word, 1, ColonAt(word) - 1))>>

\* the text searched for
WordValue(word) == SubSeq(word, ColonAt(word) + 1, Len(word))

\* the terms of a value in a field: the tokens of the field's analyzer, for a
\* STRING field the value itself
FieldTerms(eng, field, value) ==
    IF field \in DOMAIN eng.schema
    THEN Tokens(eng.tokenizers[eng.schema[field]], value)
    ELSE <<value>>

\* a parser on which set_field_boost was not called
WordClausesUnboosted(eng, word) ==
    Flatten([f \in 1..Len(WordFields(word)) |->
        LET field == WordFields(word)[f]
            toks  == FieldTerms(eng, field, WordValue(word))
        IN  IF toks = <<>> THEN <<>>
            ELSE << [field |-> field, terms |-> toks, boost |-> 1] >>])

\* QueryParser::for_index(index, [title, content]) with the title boost, on one
\* word: per default field the word's tokens, as a term query (one token) or a
\* phrase query (several; every n-gram token has position 0); no clause for a
\* field in which the word has no token
WordClauses(eng, word) ==
    Flatten([f \in 1..Len(WordFields(word)) |->
        LET field == WordFields(word)[f]
            toks  == FieldTerms(eng, field, WordValue(word))
        IN  IF toks = <<>> THEN <<>>
            ELSE << [field |-> field, terms |-> toks,
                     boost |-> IF field = "title" THEN TitleBoost ELSE 1] >>])

\* parse_query: the error of the first word that has one, "none" if the
\* query parses
QueryError(q) ==
    LET words == Words(q)
        bad == {w \in DOMAIN words : WordError(words[w]) # "none"}
    IN  IF bad = {} THEN "none"
        ELSE WordError(words[CHOOSE w \in bad : \A v \in bad : w <= v])

\* parse_query: some word is searched in a text field whose tokenizer the
\* index does not have
UnknownTokenizer(eng, q) ==
    LET words == Words(q)
    IN  \E w \in DOMAIN words : \E f \in DOMAIN WordFields(words[w]) :
            LET field == WordFields(words[w])[f]
            IN  /\ field \in DOMAIN eng.schema
                /\ eng.schema[field] \notin DOMAIN eng.tokenizers

\* parse_query: the clauses of all words, OR-ed
ParseQuery(eng, q) ==
    LET words == Words(q)
    IN  Flatten([w \in DOMAIN words |-> WordClauses(eng, words[w])])

\* a clause that matched on any one of its terms
ClauseMatchesAny(clause, doc) ==
    \E j \in DOMAIN clause.terms : DocHasTerm(doc, clause.field, clause.terms[j])

\* a term or phrase clause matches a document that has every term of the
\* clause in the clause's field (all at position 0)
ClauseMatches(clause, doc) ==
    \A j \in DOMAIN clause.terms : DocHasTerm(doc, clause.field, clause.terms[j])

\* the phrase count: the positions the terms share
PhraseCount(clause, doc) ==
    LET tfs == {DocTermFreq(doc, clause.field, clause.terms[j]) : j \in DOMAIN clause.terms}
    IN  CHOOSE m \in tfs : \A n \in tfs : m <= n

ScoreScale == 10000

\* ScoreScale * ln(p / q) for p >= q > 0, from the series of 2 * atanh
LnScaled(p, q) ==
    LET z  == ((p - q) * ScoreScale) \div (p + q)
        z2 == (z * z) \div ScoreScale
        t3 == (z * z2) \div ScoreScale
        t5 == (t3 * z2) \div ScoreScale
        t7 == (t5 * z2) \div ScoreScale
        t9 == (t7 * z2) \div ScoreScale
    IN  2 * (z + t3 \div 3 + t5 \div 5 + t7 \div 7 + t9 \div 9)

DocFreq(docs, field, term) ==
    Cardinality({i \in DOMAIN docs : DocHasTerm(docs[i], field, term)})

TotalTokens(docs, field) ==
    SumSeq([i \in DOMAIN docs |-> DocFieldLen(docs[i], field)])

\* BM25 idf: ln(1 + (N - n + 0.5) / (n + 0.5)), scaled
Idf(numDocs, docFreq) == LnScaled(2 * numDocs + 2, 2 * docFreq + 1)

\* BM25 term-frequency part with k1 = 1.2, b = 0.75, times 100:
\* tf * 2.2 / (tf + 1.2 * (0.25 + 0.75 * len / average len))
TfNorm(tf, len, total, numDocs) ==
    (2200 * tf * total) \div (10 * tf * total + 3 * total + 9 * len * numDocs)

\* the score a matching clause gives a document of the searcher's docs
ClauseScore(clause, doc, docs) ==
    LET idf == SumSeq([j \in DOMAIN clause.terms |->
                   Idf(Len(docs), DocFreq(docs, clause.field, clause.terms[j]))])
    IN  clause.boost
        * idf
        * TfNorm(PhraseCount(clause, doc), DocFieldLen(doc, clause.field),
                 TotalTokens(docs, clause.field), Len(docs))

\* the boolean query sums the clauses that match
DocScore(clauses, doc, docs) ==
    SumSeq([c \in DOMAIN clauses |->
        IF ClauseMatches(clauses[c], doc) THEN ClauseScore(clauses[c], doc, docs)
        ELSE 0])

\* a query that is the conjunction of its clauses: one without clauses matches
\* every document
DocMatchesEvery(clauses, doc) ==
    \A c \in DOMAIN clauses : ClauseMatches(clauses[c], doc)

\* the query is the disjunction of its clauses: one without clauses matches
\* no document
DocMatches(clauses, doc) ==
    \E c \in DOMAIN clauses : ClauseMatches(clauses[c], doc)

\* the matching documents of the segments in address order, each with its score
Hits(segments, clauses) ==
    LET docs == Flatten(segments)
    IN  Flatten([s \in DOMAIN segments |->
            Flatten([d \in DOMAIN segments[s] |->
                IF DocMatches(clauses, segments[s][d])
                THEN << [score |-> DocScore(clauses, segments[s][d], docs),
                         seg |-> s, doc |-> d] >>
                ELSE <<>>])])

\* the collector's order: higher score first, then lower DocAddress
Before(h1, h2) ==
    \/ h1.score > h2.score
    \/ /\ h1.score = h2.score
       /\ \/ h1.seg < h2.seg
          \/ h1.seg = h2.seg /\ h1.doc < h2.doc

Insert(top, h) ==
    LET k == Cardinality({i \in DOMAIN top : Before(top[i], h)})
    IN  SubSeq(top, 1, k) \o <<h>> \o SubSeq(top, k + 1, Len(top))

RECURSIVE Collect(_, _, _)
Collect(hits, limit, top) ==
    IF hits = <<>> THEN top
    ELSE Collect(Tail(hits), limit, Take(Insert(top, Head(hits)), limit))

\* a collector that keeps one hit too many
TopDocsOneMore(hits, limit) == Collect(hits, limit + 1, <<>>)

\* searcher.search(&query, &TopDocs::with_limit(limit)), limit >= 1
TopDocs(hits, limit) == Collect(hits, limit, <<>>)

SnippetChars == 200

\* a snippet that already truncates a content of exactly SnippetChars
SnippetAtLimit(content_text) ==
    IF Len(content_text) >= SnippetChars
    THEN Take(content_text, SnippetChars) \o <<".", ".", ".">>
    ELSE content_text

\* search.rs 96-101
Snippet(content_text) ==
    IF Len(content_text) > SnippetChars
    THEN Take(content_text, SnippetChars) \o <<".", ".", ".">>
    ELSE content_text

\* search.rs 69-110: one SearchResult per hit
Hydrate(segments, top) ==
    [i \in DOMAIN top |->
        LET doc == segments[top[i].seg][top[i].doc]
        IN  [conversation_id |-> doc.conversation_id,
             title   |-> doc.title,
             date    |-> doc.date,
             score   |-> top[i].score,
             snippet |-> Snippet(doc.content)]]

\* the reader can load the searcher: meta.json and the files it names are there
ReaderOk(d) ==
    /\ d.exists
    /\ d.meta.present
    /\ (d.meta.segments # <<>> => d.files)

Ids(docs) == [i \in DOMAIN docs |-> docs[i].conversation_id]

\* a reader that stays on the empty commit the server's engine was made on
SearcherNeverReloaded(d) == <<>>

\* search.rs 43-49: the reader is made in the call, so the searcher holds the
\* segments that meta.json names at the time of the call
Searcher(d) == d.meta.segments

\* SearchEngine::search(query_str, limit) against the directory as it is now:
\* what it returns, and the conversation ids of the snapshot it searched
Search(eng, d, query_str, limit) ==
    IF ~ReaderOk(d)
    THEN [outcome |-> "Err", error |-> "OpenReadError", results |-> <<>>,
          visible |-> <<>>]
    ELSE IF UnknownTokenizer(eng, ToLowercase(query_str))
    THEN [outcome |-> "Err", error |-> "TokenizerNotFound", results |-> <<>>,
          visible |-> Ids(Flatten(Searcher(d)))]
    ELSE IF QueryError(ToLowercase(query_str)) # "none"
    THEN [outcome |-> "Err", error |-> QueryError(ToLowercase(query_str)),
          results |-> <<>>, visible |-> Ids(Flatten(Searcher(d)))]
    ELSE IF limit = 0
    THEN [outcome |-> "Panic", error |-> "none", results |-> <<>>,
          visible |-> Ids(Flatten(Searcher(d)))]
    ELSE LET clauses == ParseQuery(eng, ToLowercase(query_str))
             top == TopDocs(Hits(Searcher(d), clauses), limit)
         IN  [outcome |-> "Ok", error |-> "none",
              results |-> Hydrate(Searcher(d), top),
              visible |-> Ids(Flatten(Searcher(d)))]

----------------------------------------------------------------------------
(* The conversations files the model runs on *)

Node(message, children) ==
    JObj([k \in {"message", "children"} |->
            IF k = "message" THEN message ELSE JArr(children)])

Message(fragments) == JObj([k \in {"fragments"} |-> JArr(fragments)])

Fragment(text) ==
    JObj([k \in {"type", "content"} |->
            IF k = "type" THEN JStr(<<"t">>) ELSE JStr(text)])

Root(children) == JObj([k \in {"children"} |-> JArr(children)])

\* the term "ab" only in the title
ConvA ==
    [id |-> "1", title |-> Some(<<"a", "b", " ">>), inserted_at |-> Some(<<"d", "1">>),
     mapping |-> JObj([k \in {"root", "m1"} |->
         IF k = "root" THEN Root(<<JId("m1")>>)
         ELSE Node(Message(<<Fragment(<<"b">>)>>), <<>>)])]

\* the term "ab" only in the content; a child id that the mapping lacks
ConvB ==
    [id |-> "2", title |-> Some(<<"b", " ">>), inserted_at |-> None,
     mapping |-> JObj([k \in {"root", "m1", "m2"} |->
         IF k = "root" THEN Root(<<JId("m1"), JId("gone")>>)
         ELSE IF k = "m1" THEN Node(Message(<<Fragment(<<"a", "b">>)>>), <<JId("m2")>>)
         ELSE JObj([c \in {"children"} |-> JArr(<<>>)])])]

\* the text of ConvB in another case; a child id that is no string, a node
\* without message above the message
ConvC ==
    [id |-> "3", title |-> Some(<<"B", " ">>), inserted_at |-> Some(<<"d", "3">>),
     mapping |-> JObj([k \in {"root", "n1", "n2"} |->
         IF k = "root" THEN Root(<<JNum(7), JId("n1")>>)
         ELSE IF k = "n1" THEN JObj([c \in {"children"} |-> JArr(<<JId("n2")>>)])
         ELSE Node(Message(<<Fragment(<<"A", "b">>)>>), <<>>)])]

\* no title; several fragments, one without content
ConvD ==
    [id |-> "4", title |-> None, inserted_at |-> Some(<<"d", "4">>),
     mapping |-> JObj([k \in {"root", "x"} |->
         IF k = "root" THEN Root(<<JId("x")>>)
         ELSE Node(Message(<<Fragment(<<"a", "a">>),
                             JObj([c \in {"type"} |-> JStr(<<"t">>)]),
                             Fragment(<<"b">>)>>), <<>>)])]

\* a content of SnippetChars + 1 code points
ConvLong ==
    [id |-> "5", title |-> Some(<<"a">>), inserted_at |-> None,
     mapping |-> JObj([k \in {"root", "m"} |->
         IF k = "root" THEN Root(<<JId("m")>>)
         ELSE Node(Message(<<Fragment(Rep("a", SnippetChars))>>), <<>>)])]

\* a content of exactly SnippetChars code points, from two fragments
ConvEdge ==
    [id |-> "6", title |-> Some(<<"b">>), inserted_at |-> None,
     mapping |-> JObj([k \in {"root", "m"} |->
         IF k = "root" THEN Root(<<JId("m")>>)
         ELSE Node(Message(<<Fragment(Rep("a", SnippetChars - 100)),
                             Fragment(Rep("a", 98))>>), <<>>)])]

\* a title in upper case that ends with a capital sigma; a tree in which a
\* node with a child stands before its sibling
ConvSigma ==
    [id |-> "7", title |-> Some(<<"A", "Σ">>), inserted_at |-> None,
     mapping |-> JObj([k \in {"root", "x", "y", "z"} |->
         IF k = "root" THEN Root(<<JId("x"), JId("lost"), JId("z")>>)
         ELSE IF k = "x" THEN Node(Message(<<Fragment(<<"b">>)>>), <<JId("y")>>)
         ELSE IF k = "y" THEN Node(Message(<<Fragment(<<>>), Fragment(<<"c">>)>>), <<>>)
         ELSE Node(Message(<<Fragment(<<"a">>)>>), <<>>)])]

\* a conversation object without the required field id
ConvBad ==
    [title |-> Some(<<"a", "b">>), inserted_at |-> None,
     mapping |-> JObj([k \in {"root", "m"} |->
         IF k = "root" THEN Root(<<JId("m")>>)
         ELSE Node(Message(<<Fragment(<<"a", "b">>)>>), <<>>)])]

\* the three conversations of the search test (search_test.rs 18-73), with the
\* contents "Что такое гравитация", "Правила работы с ngram" and
\* "Формулы математики"
Scenario(id, title, date, msg, text) ==
    [id |-> id, title |-> Some(title), inserted_at |-> Some(date),
     mapping |-> JObj([k \in {"root", msg} |->
         IF k = "root" THEN Root(<<JId(msg)>>)
         ELSE Node(Message(<<Fragment(text)>>), <<>>)])]

ConvGravity ==
    Scenario("1",
        Cyr(<<"O", " ", "g", "r", "a", "v", "i", "t", "a", "ts", "i", "i">>),
        <<"2", "0", "2", "4", "-", "0", "1", "-", "0", "1">>, "msg1",
        Cyr(<<"Ch", "t", "o", " ", "t", "a", "k", "o", "e", " ", "g", "r", "a", "v",
              "i", "t", "a", "ts", "i", "ya">>))

ConvRules ==
    Scenario("2",
        Cyr(<<"P", "r", "a", "v", "i", "l", "a", " ", "p", "o", "i", "s", "k", "a">>),
        <<"2", "0", "2", "4", "-", "0", "1", "-", "0", "2">>, "msg2",
        Cyr(<<"P", "r", "a", "v", "i", "l", "a", " ", "r", "a", "b", "o", "t", "y",
              " ", "s", " ">>)
        \o <<"n", "g", "r", "a", "m">>)

ConvFormulas ==
    Scenario("3",
        Cyr(<<"F", "o", "r", "m", "u", "l", "y", " ", "m", "a", "t", "e", "m", "a",
              "t", "i", "k", "i">>),
        <<"2", "0", "2", "4", "-", "0", "1", "-", "0", "3">>, "msg3",
        Cyr(<<"F", "o", "r", "m", "u", "l", "y", " ", "m", "a", "t", "e", "m", "a",
              "t", "i", "k", "i">>))

\* a mapping that is no object
ConvNoObject ==
    [id |-> "8", title |-> Some(<<"a", "b">>), inserted_at |-> None,
     mapping |-> JArr(<<JId("m")>>)]

\* a mapping without the entry "root"
ConvNoRoot ==
    [id |-> "9", title |-> Some(<<"b">>), inserted_at |-> None,
     mapping |-> JObj([k \in {"m"} |-> Node(Message(<<Fragment(<<"a", "b">>)>>), <<>>)])]

\* a root whose children is no array
ConvNoChildren ==
    [id |-> "0", title |-> None, inserted_at |-> None,
     mapping |-> JObj([k \in {"root", "m"} |->
         IF k = "root" THEN JObj([c \in {"children"} |-> JId("m")])
         ELSE Node(Message(<<Fragment(<<"a", "b">>)>>), <<>>)])]

\* serde's derived Deserialize of Conversation: id and mapping are required,
\* the Option fields are not
Deserializes(conv) == {"id", "mapping"} \subseteq DOMAIN conv

\* the conversations by name
Conv(name) ==
    CASE name = "A" -> ConvA
      [] name = "B" -> ConvB
      [] name = "C" -> ConvC
      [] name = "D" -> ConvD
      [] name = "Long" -> ConvLong
      [] name = "Edge" -> ConvEdge
      [] name = "Sigma" -> ConvSigma
      [] name = "Bad" -> ConvBad
      [] name = "Gravity" -> ConvGravity
      [] name = "Rules" -> ConvRules
      [] name = "Formulas" -> ConvFormulas
      [] name = "NoObject" -> ConvNoObject
      [] name = "NoRoot" -> ConvNoRoot
      [] name = "NoChildren" -> ConvNoChildren

ShortCorpus == {"A", "B", "C", "D"}

\* the files, each the names of its conversations in file order: up to MaxConvs
\* different short conversations, or one long conversation, or a file with a
\* conversation that does not deserialize
Inputs ==
    {s \in UNION {[1..n -> ShortCorpus] : n \in 0..MaxConvs} :
        \A i, j \in DOMAIN s : i # j => s[i] # s[j]}
    \cup {<<"Long">>, <<"Edge">>, <<"Sigma">>, <<"A", "Bad">>}

\* serde_json::from_str::<Vec<Conversation>>(&data) of the file
Conversations(file) == [i \in DOMAIN file |-> Conv(file[i])]

Queries ==
    { <<"a", "b">>, <<"A", "b">>, <<"b", " ">>, <<"a", "b", "b">>,
      <<"a", "a">>, <<"a", "b", " ", "a", "a">>, <<"a", "σ">>, <<>>,
      <<"a", ":", "b">> }

\* the file of the search test, and files with conversations whose mapping
\* holds no tree to walk, before and after conversations with messages
TestInputs ==
    { <<"Gravity", "Rules", "Formulas">>, <<"A", "NoObject">>, <<"NoRoot", "B">>,
      <<"D", "NoChildren", "NoObject">> }

\* the queries of the search test (search_test.rs 87-96) and the query "грав"
TestQueries ==
    { Cyr(<<"g", "r", "a">>), Cyr(<<"r", "a", "v">>), Cyr(<<"g", "r", "a", "v">>),
      <<"a", "b">> }

\* the limit of the searches of the test
TestLimit == 10

\* the limits a caller passes: 0 up to the most conversations of an input
Limits == 0..MaxConvs

\* the limit parameters of the API requests: none, 0 and a positive one
LimitParams == {None, Some(0), Some(1)}

----------------------------------------------------------------------------
(* State *)

NoResp ==
    [op |-> "none", outcome |-> "none", error |-> "none", qgiven |-> TRUE, q |-> <<>>,
     limit |-> 0, param |-> None, results |-> <<>>, visible |-> <<>>]

Reply(op, outcome) == [NoResp EXCEPT !.op = op, !.outcome = outcome]

\* Err(e): the error the call returned
ReplyErr(op, error) == [Reply(op, "Err") EXCEPT !.error = error]

SearchReply(op, q, limit, param, r) ==
    [op |-> op, outcome |-> r.outcome, error |-> r.error, qgiven |-> TRUE, q |-> q,
     limit |-> limit, param |-> param, results |-> r.results, visible |-> r.visible]

NoWriter == [tokenizers |-> NoTokenizers, segs |-> [t \in 1..NumThreads |-> <<>>]]

\* no walk, no page generation, no import and no start of the server binary
\* is under way
WalkIdle == tree = JNull /\ frames = <<>> /\ buffer = <<>>

GenIdle ==
    /\ totalConvs = 0
    /\ remaining = 0
    /\ counter = 0
    /\ workers = <<>>
    /\ logged = <<>>
    /\ skipped = FALSE

AppIdle ==
    /\ importFile = "none"
    /\ step = "none"
    /\ events = <<>>
    /\ config = [memory |-> "none", saved |-> "none"]
    /\ dist = "absent"
    /\ indexDir = "absent"
    /\ ret = "none"
    /\ before = [config |-> "none", dist |-> "absent", indexDir |-> "absent"]
    /\ calls = <<>>

Init ==
    /\ WalkIdle
    /\ GenIdle
    /\ AppIdle
    /\ input \in Inputs
    /\ site = <<>>
    /\ disk = NoDir
    /\ pc = "idle"
    /\ idx = 0
    /\ writer = NoWriter
    /\ engine = NoEngine
    /\ openedBefore = FALSE
    /\ resp = NoResp

----------------------------------------------------------------------------
(* tauri.rs: process_conversations_file *)

\* 45-110: the file is validated, the old site removed and generate_site
\* writes a page for every conversation whose messages it could render
StartImport ==
    /\ pc = "idle"
    /\ IF \A i \in DOMAIN input : Deserializes(Conv(input[i]))
       THEN /\ site' = input
            /\ pc' = "cleanup"
            /\ resp' = NoResp
       ELSE /\ site' = <<>>
            /\ pc' = "idle"
            /\ resp' = ReplyErr("import", "serde_json::Error")
    /\ UNCHANGED <<otherVars, input, disk, idx, writer, engine, openedBefore>>

\* 117-118: the old index is removed if the path exists
CleanIndex ==
    /\ pc = "cleanup"
    /\ pc' = IF disk.exists THEN "unlink" ELSE "begin"
    /\ openedBefore' = engine.open
    /\ resp' = NoResp
    /\ UNCHANGED <<otherVars, input, site, disk, idx, writer, engine>>

\* 119: remove_dir_all unlinks the entries of the directory one by one
UnlinkMeta ==
    /\ pc = "unlink"
    /\ disk.meta.present
    /\ disk' = [disk EXCEPT !.meta = NoMeta]
    /\ resp' = NoResp
    /\ UNCHANGED <<otherVars, input, site, pc, idx, writer, engine, openedBefore>>

UnlinkSegments ==
    /\ pc = "unlink"
    /\ disk.files
    /\ disk' = [disk EXCEPT !.files = FALSE]
    /\ resp' = NoResp
    /\ UNCHANGED <<otherVars, input, site, pc, idx, writer, engine, openedBefore>>

\* 119: ... and then the directory
Rmdir ==
    /\ pc = "unlink"
    /\ ~disk.meta.present
    /\ ~disk.files
    /\ disk' = NoDir
    /\ pc' = "begin"
    /\ resp' = NoResp
    /\ UNCHANGED <<otherVars, input, site, idx, writer, engine, openedBefore>>

----------------------------------------------------------------------------
(* main.rs: the start of the server binary *)

\* 61-64: without an index directory, main creates it and runs build_index
StartupBuild ==
    /\ pc = "idle"
    /\ ~disk.exists
    /\ disk' = [disk EXCEPT !.exists = TRUE]
    /\ pc' = "begin"
    /\ resp' = NoResp
    /\ UNCHANGED <<otherVars, input, site, idx, writer, engine, openedBefore>>

----------------------------------------------------------------------------
(* indexer.rs: build_index *)

\* 36-60: read and parse the file (an error if a conversation of it does not
\* deserialize), build the schema, create the directory
Begin ==
    /\ pc = "begin"
    /\ IF \A i \in DOMAIN input : Deserializes(Conv(input[i]))
       THEN /\ disk' = [disk EXCEPT !.exists = TRUE]
            /\ pc' = "create"
            /\ resp' = NoResp
            /\ UNCHANGED openedBefore
       ELSE /\ pc' = "idle"
            /\ resp' = ReplyErr("build", "serde_json::Error")
            /\ openedBefore' = FALSE
            /\ UNCHANGED disk
    /\ UNCHANGED <<otherVars, input, site, idx, writer, engine>>

\* a storage failure under build_index: of read_to_string or create_dir_all
\* (36, 60), of Index::create_in_dir or index.writer (61, 69), of add_document
\* (90-95) or of commit before it rewrites meta.json (98); the `?` returns the
\* error and the writer is dropped
IoError ==
    /\ pc \in {"begin", "create", "add"}
    /\ pc' = "idle"
    /\ writer' = [writer EXCEPT !.segs = NoWriter.segs]
    /\ resp' = ReplyErr("build", "io::Error")
    /\ idx' = 0
    /\ openedBefore' = FALSE
    /\ UNCHANGED <<otherVars, input, site, disk, engine>>

\* 61-69: Index::create_in_dir writes meta.json with the schema and no segment
\* (an error if the directory holds an index already); the tokenizer is
\* registered on the handle and the writer started
CreateIndex ==
    /\ pc = "create"
    /\ IF disk.meta.present
       THEN /\ pc' = "idle"
            /\ resp' = ReplyErr("build", "TantivyError::IndexAlreadyExists")
            /\ UNCHANGED <<disk, writer, idx, openedBefore>>
       ELSE /\ disk' = [disk EXCEPT !.meta = Meta(Schema, <<>>)]
            /\ writer' = [tokenizers |-> Register(NoTokenizers, "ngram2", IndexNgramTokenizer),
                          segs |-> [t \in 1..NumThreads |-> <<>>]]
            /\ idx' = 0
            /\ pc' = "add"
            /\ resp' = NoResp
            /\ UNCHANGED openedBefore
    /\ UNCHANGED <<otherVars, input, site, engine>>

\* a loop whose content buffer is made once, before the loop: every document
\* also carries the content of the conversations before it
AddDocumentSharedBuffer(t) ==
    /\ pc = "add"
    /\ idx < Len(input)
    /\ LET doc == Document(Conversations(input)[idx + 1], idx, writer.tokenizers)
           shared == Flatten([j \in 1..(idx + 1) |-> FullContent(Conversations(input)[j])])
       IN  writer' = [writer EXCEPT !.segs[t] = Append(@, [doc EXCEPT !.content = shared])]
    /\ idx' = idx + 1
    /\ resp' = NoResp
    /\ UNCHANGED <<otherVars, input, site, disk, pc, engine, openedBefore>>

\* 72-96: one turn of the loop; the document goes to whichever indexing thread
\* takes it from the writer's channel
AddDocument(t) ==
    /\ pc = "add"
    /\ idx < Len(input)
    /\ writer' = [writer EXCEPT !.segs[t] =
                     Append(@, Document(Conversations(input)[idx + 1], idx, writer.tokenizers))]
    /\ idx' = idx + 1
    /\ resp' = NoResp
    /\ UNCHANGED <<otherVars, input, site, disk, pc, engine, openedBefore>>

\* the segments of the threads that got a document
Written(segs) ==
    Flatten([t \in DOMAIN segs |-> IF segs[t] = <<>> THEN <<>> ELSE <<segs[t]>>])

\* 98-101: commit rewrites meta.json to name the new segments; Ok(()), and the
\* writer and the loop variable are dropped (the model keeps the tokenizers
\* its handle had)
Commit ==
    /\ pc = "add"
    /\ idx = Len(input)
    /\ disk' = [disk EXCEPT !.meta = Meta(Schema, Written(writer.segs)),
                            !.files = Written(writer.segs) # <<>>]
    /\ pc' = "idle"
    /\ openedBefore' = FALSE
    /\ writer' = [writer EXCEPT !.segs = NoWriter.segs]
    /\ resp' = Reply("build", "Ok")
    /\ idx' = 0
    /\ UNCHANGED <<otherVars, input, site, engine>>

----------------------------------------------------------------------------
(* search.rs: SearchEngine::new and search; server.rs and tauri.rs callers *)

\* Index::open_in_dir succeeds on a directory with a meta.json
CanOpen(d) == d.exists /\ d.meta.present

\* an open that reports every failure as the same error
OpenErrorOpaque(d) == "Error"

\* the error of Index::open_in_dir: the directory is not there, or it is and
\* meta.json cannot be read from it
OpenError(d) ==
    IF ~d.exists THEN "OpenDirectoryError::DoesNotExist"
    ELSE "OpenReadError::FileDoesNotExist"

\* search.rs 26-40: the handle SearchEngine::new returns on success
NewEngine(d) ==
    [open |-> TRUE, schema |-> d.meta.schema,
     tokenizers |-> Register(NoTokenizers, "ngram2", SearchNgramTokenizer)]

\* the server opens its engine once, when it starts: before the window
\* that offers the import is built (tauri.rs 256-301), so no import is running
EngineNew ==
    /\ ~engine.open
    /\ pc = "idle"
    /\ IF CanOpen(disk)
       THEN engine' = NewEngine(disk) /\ resp' = Reply("new", "Ok")
       ELSE engine' = engine /\ resp' = ReplyErr("new", OpenError(disk))
    /\ UNCHANGED <<otherVars, input, site, disk, pc, idx, writer, openedBefore>>

\* a call of SearchEngine::search on the server's engine
EngineSearch(q, limit) ==
    /\ resp = NoResp
    /\ engine.open
    /\ resp' = SearchReply("search", q, limit, None, Search(engine, disk, q, limit))
    /\ UNCHANGED <<otherVars, input, site, disk, pc, idx, writer, engine, openedBefore>>

DefaultLimit == 20

\* server.rs 23-28: a request without q does not deserialize into SearchQuery:
\* the Query extractor rejects it with 400 Bad Request and the handler is not
\* called
SearchRejected ==
    /\ resp = NoResp
    /\ engine.open
    /\ resp' = [Reply("api", "BadRequest") EXCEPT !.qgiven = FALSE]
    /\ UNCHANGED <<otherVars, input, site, disk, pc, idx, writer, engine, openedBefore>>

\* server.rs 155-185: GET /api/search?q=..[&limit=..]; a missing limit is
\* default_limit()
SearchHandler(q, param) ==
    /\ resp = NoResp
    /\ engine.open
    /\ LET limit == IF param.some THEN param.v ELSE DefaultLimit
       IN  resp' = SearchReply("api", q, limit, param, Search(engine, disk, q, limit))
    /\ UNCHANGED <<otherVars, input, site, disk, pc, idx, writer, engine, openedBefore>>

TauriLimit == 10

\* tauri.rs 139-163: the search command opens the index path and searches
TauriSearch(q) ==
    /\ resp = NoResp
    /\ resp' = IF CanOpen(disk)
               THEN SearchReply("tauri", q, TauriLimit, None,
                                Search(NewEngine(disk), disk, q, TauriLimit))
               ELSE [ReplyErr("tauri", OpenError(disk)) EXCEPT !.q = q,
                                                               !.limit = TauriLimit]
    /\ UNCHANGED <<otherVars, input, site, disk, pc, idx, writer, engine, openedBefore>>

\* the caller takes what its call returned; it calls again after that
Return ==
    /\ resp # NoResp
    /\ resp' = NoResp
    /\ UNCHANGED <<otherVars, input, site, disk, pc, idx, writer, engine, openedBefore>>

----------------------------------------------------------------------------

Next ==
    \/ StartImport
    \/ CleanIndex
    \/ StartupBuild
    \/ UnlinkMeta
    \/ UnlinkSegments
    \/ Rmdir
    \/ Begin
    \/ CreateIndex
    \/ IoError
    \/ \E t \in 1..NumThreads : AddDocument(t)
    \/ Commit
    \/ EngineNew
    \/ \E q \in Queries, limit \in Limits : EngineSearch(q, limit)
    \/ \E q \in Queries, param \in LimitParams : SearchHandler(q, param)
    \/ SearchRejected
    \/ \E q \in Queries : TauriSearch(q)
    \/ Return

Spec == Init /\ [][Next]_vars

----------------------------------------------------------------------------
(* indexer.rs: extract_messages, one step of its loop at a time *)

\* no build, no engine and no call
MainIdle ==
    /\ input = <<>>
    /\ site = <<>>
    /\ disk = NoDir
    /\ pc = "idle"
    /\ idx = 0
    /\ writer = NoWriter
    /\ engine = NoEngine
    /\ openedBefore = FALSE
    /\ resp = NoResp

\* the children arrays of the mappings walked: ids of nodes, of "root", of
\* the node without children, an id the mapping lacks and a child id that is
\* no string
ChildLists ==
    { <<>>, <<JId("x")>>, <<JId("y")>>, <<JId("z")>>, <<JId("y"), JId("z")>>,
      <<JNum(7), JId("z"), JId("lost")>>, <<JId("root")>>, <<JId("w")>> }

\* a mapping of three nodes under "root", each with a message of one fragment,
\* and a node "w" that has a message and no children array
TreeOf(top, kids) ==
    JObj([k \in {"root", "w", "x", "y", "z"} |->
        IF k = "root" THEN Root(top)
        ELSE IF k = "w" THEN JObj([message |-> Message(<<Fragment(<<k>>)>>)])
        ELSE Node(Message(<<Fragment(<<k>>)>>), kids[k])])

Trees ==
    {TreeOf(top, kids) : top \in {<<JId("x")>>, <<JId("x"), JId("y")>>},
                         kids \in [{"x", "y", "z"} -> ChildLists]}

\* build_index 81-85: the first call, on the children of "root"
WalkInit ==
    /\ MainIdle
    /\ GenIdle
    /\ AppIdle
    /\ tree \in Trees
    /\ frames = <<[children |-> JGet(JGet(tree, "root"), "children").a, i |-> 1]>>
    /\ buffer = <<>>

\* the frame of the running call, and the child id its loop is at
Top == frames[Len(frames)]

AtChild == frames # <<>> /\ Top.i <= Len(Top.children)

\* 110-111: the child id is a string and a key of the mapping
Known(child_id) == child_id.t = "str" /\ child_id.id \in DOMAIN tree.o

\* 112-121: the buffer after the fragments of the child's message
WithMessage(child) ==
    IF JHas(child, "message") /\ JHasArr(JGet(child, "message"), "fragments")
    THEN AppendFragments(JGet(JGet(child, "message"), "fragments").a, buffer)
    ELSE buffer

\* a loop that stays at the child it has just handled
SameChild(frame) == frame

\* 109: the loop goes on to the next child id
NextChild(frame) == [frame EXCEPT !.i = @ + 1]

\* 109-127: a child id that is no string or no key of the mapping adds nothing
Unknown ==
    /\ AtChild
    /\ ~Known(Top.children[Top.i])
    /\ frames' = [frames EXCEPT ![Len(frames)] = NextChild(@)]
    /\ UNCHANGED <<mainVars, genVars, appVars, tree, buffer>>

\* 111-126: a child without a children array: its fragments are appended
Leaf ==
    /\ AtChild
    /\ Known(Top.children[Top.i])
    /\ LET child == tree.o[Top.children[Top.i].id]
       IN  /\ ~JHasArr(child, "children")
           /\ buffer' = WithMessage(child)
    /\ frames' = [frames EXCEPT ![Len(frames)] = NextChild(@)]
    /\ UNCHANGED <<mainVars, genVars, appVars, tree>>

\* 111-124: a child with a children array: its fragments are appended and
\* extract_messages calls itself on the array, if the stack has room
Descend ==
    /\ AtChild
    /\ Known(Top.children[Top.i])
    /\ Len(frames) < MaxDepth
    /\ LET child == tree.o[Top.children[Top.i].id]
       IN  /\ JHasArr(child, "children")
           /\ buffer' = WithMessage(child)
           /\ frames' = Append([frames EXCEPT ![Len(frames)] = NextChild(@)],
                               [children |-> JGet(child, "children").a, i |-> 1])
    /\ UNCHANGED <<mainVars, genVars, appVars, tree>>

\* 128-129: the loop of a call is over and the call returns
Finish ==
    /\ frames # <<>>
    /\ Top.i > Len(Top.children)
    /\ frames' = SubSeq(frames, 1, Len(frames) - 1)
    /\ UNCHANGED <<mainVars, genVars, appVars, tree, buffer>>

WalkNext == Unknown \/ Leaf \/ Descend \/ Finish

\* the thread that runs build_index keeps running
WalkSpec == WalkInit /\ [][WalkNext]_vars /\ WF_vars(WalkNext)

----------------------------------------------------------------------------
(* generator.rs: the parallel page generation of generate_site *)

\* 58: a line is logged at every multiple of 100
LogEvery == 100

\* the sizes of the files: none, one, just below and at the first logged
\* value, and the most
GenTotals == {0, 1, LogEvery - 1, LogEvery, MaxPages}

\* 48-52: the counter is made and par_iter hands the conversations to the
\* worker threads
GenInit ==
    /\ MainIdle
    /\ WalkIdle
    /\ AppIdle
    /\ totalConvs \in GenTotals
    /\ remaining = totalConvs
    /\ counter = 0
    /\ workers = [w \in 1..GenThreads |-> [pc |-> "idle", seen |-> 0]]
    /\ logged = <<>>
    /\ skipped = FALSE

\* a counter that is not behind a Mutex
MutexIgnored == TRUE

\* 56: counter.lock() returns when no other thread holds the guard
MutexFree == \A v \in DOMAIN workers : workers[v].pc \notin {"locked", "read", "counted"}

\* 53-56: a worker takes a conversation, calls the closure and gets the lock
Lock(w) ==
    /\ workers[w].pc = "idle"
    /\ remaining > 0
    /\ MutexFree
    /\ remaining' = remaining - 1
    /\ workers' = [workers EXCEPT ![w].pc = "locked"]
    /\ UNCHANGED <<mainVars, walkVars, appVars, totalConvs, counter, logged, skipped>>

\* 57: *count += 1 reads the value ...
Read(w) ==
    /\ workers[w].pc = "locked"
    /\ workers' = [workers EXCEPT ![w] = [pc |-> "read", seen |-> counter]]
    /\ UNCHANGED <<mainVars, walkVars, appVars, totalConvs, remaining, counter, logged,
                   skipped>>

\* 57: ... and writes it back, one more
Write(w) ==
    /\ workers[w].pc = "read"
    /\ counter' = workers[w].seen + 1
    /\ workers' = [workers EXCEPT ![w] = [pc |-> "counted", seen |-> 0]]
    /\ UNCHANGED <<mainVars, walkVars, appVars, totalConvs, remaining, logged, skipped>>

\* 58-61: the value is logged if it is a multiple of 100, and the guard dropped
Unlock(w) ==
    /\ workers[w].pc = "counted"
    /\ logged' = IF counter % LogEvery = 0 THEN Append(logged, counter) ELSE logged
    /\ workers' = [workers EXCEPT ![w].pc = "render"]
    /\ UNCHANGED <<mainVars, walkVars, appVars, totalConvs, remaining, counter, skipped>>

\* 63-122: the page is rendered and written: Some(meta), or None after a
\* failure of extraction, rendering or writing
Render(w) ==
    /\ workers[w].pc = "render"
    /\ workers' = [workers EXCEPT ![w].pc = "idle"]
    /\ skipped' \in {skipped, TRUE}
    /\ UNCHANGED <<mainVars, walkVars, appVars, totalConvs, remaining, counter, logged>>

GenNext ==
    \E w \in 1..GenThreads : Lock(w) \/ Read(w) \/ Write(w) \/ Unlock(w) \/ Render(w)

GenSpec == GenInit /\ [][GenNext]_vars

----------------------------------------------------------------------------
(* tauri.rs: process_conversations_file, one statement at a time *)

\* the files a user can pick: one that does not exist, one that cannot be
\* read, one that is not JSON, one that is JSON but not a list of
\* conversations, and an export
ImportFiles == {"missing", "unreadable", "invalid", "other_json", "conversations"}

\* what a directory can be before the import
Dirs == {"absent", "old"}

\* 44-49: the command is called; the configuration file, the site and the
\* index are what earlier runs left
ImportInit ==
    /\ MainIdle
    /\ WalkIdle
    /\ GenIdle
    /\ importFile \in ImportFiles
    /\ step = "start"
    /\ events = <<>>
    /\ \E c \in {"none", "old"} :
           /\ config = [memory |-> c, saved |-> c]
           /\ before \in [config : {c}, dist : Dirs, indexDir : Dirs]
    /\ dist = before.dist
    /\ indexDir = before.indexDir
    /\ ret = "none"
    /\ calls = <<>>

\* the call of one fallible function and its outcome
Called(fn, ok) == Append(calls, [fn |-> fn, ok |-> ok])

\* a call whose Result is not looked at
TryIgnored(ok, next) == next

\* the ? operator (and the early return of 62-65): an Err leaves the function
Try(ok, next) == IF ok THEN next ELSE "failed"

\* the value the command has returned once it was left through an Err
Returned(s) == IF s = "failed" THEN "Err" ELSE ret

\* 54-57, 84-87, 96-99, 112-115, 128-131: emit_to, its result dropped
Emit(percent, at, next) ==
    /\ step = at
    /\ events' = Append(events, percent)
    /\ step' = next
    /\ UNCHANGED <<mainVars, walkVars, genVars, importFile, config, dist, indexDir, ret,
                   before, calls>>

EmitProgress ==
    \/ Emit(0, "start", "exists")
    \/ Emit(20, "emit20", "save")
    \/ Emit(30, "emit30", "remove_dist")
    \/ Emit(70, "emit70", "remove_index")
    \/ Emit(100, "emit100", "return")

\* a step that only looks at the file
Look(at, fn, ok, next) ==
    /\ step = at
    /\ calls' = Called(fn, ok)
    /\ step' = Try(ok, next)
    /\ ret' = Returned(step')
    /\ UNCHANGED <<mainVars, walkVars, genVars, importFile, events, config, dist,
                   indexDir, before>>

\* 62: Path::exists
Exists(file) == file # "missing"

\* 70: read_to_string gives the content
Readable(file) == file # "unreadable"

\* a parser that takes every text
AnyText(file) == TRUE

\* 77: serde_json::from_str gives a Value
ValidJson(file) == file \in {"other_json", "conversations"}

\* 62-65: the file must exist
CheckExists == Look("exists", "exists", Exists(importFile), "read")

\* 70-74: and be readable
ReadFile == Look("read", "read_to_string", Readable(importFile), "parse")

\* 77-81: and be JSON
ParseJson == Look("parse", "from_str", ValidJson(importFile), "emit20")

\* 90-94 and config.rs 35-51: the path is set in memory, then saved; a failed
\* save leaves the file as it was or half written
SaveConfig ==
    /\ step = "save"
    /\ \E ok \in BOOLEAN :
           /\ calls' = Called("save", ok)
           /\ step' = Try(ok, "emit30")
           /\ IF ok
              THEN config' = [memory |-> "new", saved |-> "new"]
              ELSE \E f \in {config.saved, "torn"} :
                      config' = [memory |-> "new", saved |-> f]
    /\ ret' = Returned(step')
    /\ UNCHANGED <<mainVars, walkVars, genVars, importFile, events, dist, indexDir,
                   before>>

\* 102-105: the old site is removed if there is one; a failed removal leaves
\* all or a part of it
RemoveDist ==
    /\ step = "remove_dist"
    /\ IF dist = "absent"
       THEN /\ step' = "generate"
            /\ UNCHANGED <<dist, calls>>
       ELSE \E ok \in BOOLEAN :
               /\ calls' = Called("remove_dir_all(dist)", ok)
               /\ step' = Try(ok, "generate")
               /\ IF ok THEN dist' = "absent" ELSE dist' \in {dist, "partial"}
    /\ ret' = Returned(step')
    /\ UNCHANGED <<mainVars, walkVars, genVars, importFile, events, config, indexDir,
                   before>>

\* 108-110 and generator.rs 25-28: generate_site fails before it writes
\* anything on a file that is not a list of conversations, and can fail
\* half way on any file
GenerateSite ==
    /\ step = "generate"
    /\ \E ok \in IF importFile = "conversations" THEN BOOLEAN ELSE {FALSE} :
           /\ calls' = Called("generate_site", ok)
           /\ step' = Try(ok, "emit70")
           /\ IF ok
              THEN dist' = "new"
              ELSE IF importFile = "conversations"
                   THEN dist' \in {dist, "partial"}
                   ELSE dist' = dist
    /\ ret' = Returned(step')
    /\ UNCHANGED <<mainVars, walkVars, genVars, importFile, events, config, indexDir,
                   before>>

\* 118-121: the old index is removed if there is one
RemoveIndex ==
    /\ step = "remove_index"
    /\ IF indexDir = "absent"
       THEN /\ step' = "build"
            /\ UNCHANGED <<indexDir, calls>>
       ELSE \E ok \in BOOLEAN :
               /\ calls' = Called("remove_dir_all(index)", ok)
               /\ step' = Try(ok, "build")
               /\ IF ok THEN indexDir' = "absent" ELSE indexDir' \in {indexDir, "partial"}
    /\ ret' = Returned(step')
    /\ UNCHANGED <<mainVars, walkVars, genVars, importFile, events, config, dist,
                   before>>

\* 124-126: build_index
BuildIndex ==
    /\ step = "build"
    /\ \E ok \in BOOLEAN :
           /\ calls' = Called("build_index", ok)
           /\ step' = Try(ok, "emit100")
           /\ IF ok THEN indexDir' = "new" ELSE indexDir' \in {indexDir, "partial"}
    /\ ret' = Returned(step')
    /\ UNCHANGED <<mainVars, walkVars, genVars, importFile, events, config, dist,
                   before>>

\* 133-135: Ok(())
ReturnOk ==
    /\ step = "return"
    /\ step' = "returned"
    /\ ret' = "Ok"
    /\ UNCHANGED <<mainVars, walkVars, genVars, importFile, events, config, dist,
                   indexDir, before, calls>>

ImportNext ==
    \/ EmitProgress
    \/ CheckExists
    \/ ReadFile
    \/ ParseJson
    \/ SaveConfig
    \/ RemoveDist
    \/ GenerateSite
    \/ RemoveIndex
    \/ BuildIndex
    \/ ReturnOk

ImportSpec == ImportInit /\ [][ImportNext]_vars

----------------------------------------------------------------------------
(* main.rs: the start of the server binary, one statement at a time *)

\* the site directory at startup: none, one without index.html, a site
SiteDirs == {"absent", "no_index_html", "site"}

\* the index directory at startup: none, an empty one, an index
IndexDirs == {"absent", "empty", "index"}

\* 35-47: the source is the conversations file or the empty fallback; the
\* file may be no list of conversations
BootInit ==
    /\ MainIdle
    /\ WalkIdle
    /\ GenIdle
    /\ importFile \in {"conversations", "invalid"}
    /\ step = "site"
    /\ events = <<>>
    /\ config = [memory |-> "none", saved |-> "none"]
    /\ before \in [config : {"none"}, dist : SiteDirs, indexDir : IndexDirs]
    /\ dist = before.dist
    /\ indexDir = before.indexDir
    /\ ret = "none"
    /\ calls = <<>>

\* 50-51: index_file.exists()
SiteMissing(d) == d # "site"

\* a directory that is never found
AlwaysMissing(d) == TRUE

\* 61: index_path.exists()
IndexMissing(d) == d = "absent"

\* 50-51, 56-58: an existing site is used
SiteCheck ==
    /\ step = "site"
    /\ step' = IF SiteMissing(dist) THEN "site_dir" ELSE "index"
    /\ UNCHANGED <<mainVars, walkVars, genVars, importFile, events, config, dist,
                   indexDir, ret, before, calls>>

\* 53: create_dir_all(&output_dir)?
SiteDir ==
    /\ step = "site_dir"
    /\ \E ok \in BOOLEAN :
           /\ calls' = Called("create_dir_all(dist)", ok)
           /\ step' = Try(ok, "site_generate")
           /\ dist' = IF ok /\ dist = "absent" THEN "no_index_html" ELSE dist
    /\ ret' = Returned(step')
    /\ UNCHANGED <<mainVars, walkVars, genVars, importFile, events, config, indexDir,
                   before>>

\* 54: generate_site(..).await?
SiteGenerate ==
    /\ step = "site_generate"
    /\ \E ok \in IF importFile = "conversations" THEN BOOLEAN ELSE {FALSE} :
           /\ calls' = Called("generate_site", ok)
           /\ step' = Try(ok, "index")
           /\ dist' = IF ok THEN "site" ELSE dist
    /\ ret' = Returned(step')
    /\ UNCHANGED <<mainVars, walkVars, genVars, importFile, events, config, indexDir,
                   before>>

\* 61, 66-68: an existing index directory is used
IndexCheck ==
    /\ step = "index"
    /\ step' = IF IndexMissing(indexDir) THEN "index_dir" ELSE "open"
    /\ UNCHANGED <<mainVars, walkVars, genVars, importFile, events, config, dist,
                   indexDir, ret, before, calls>>

\* 63: create_dir_all(&index_path)?
IndexDirCreate ==
    /\ step = "index_dir"
    /\ \E ok \in BOOLEAN :
           /\ calls' = Called("create_dir_all(index)", ok)
           /\ step' = Try(ok, "index_build")
           /\ indexDir' = IF ok THEN "empty" ELSE indexDir
    /\ ret' = Returned(step')
    /\ UNCHANGED <<mainVars, walkVars, genVars, importFile, events, config, dist,
                   before>>

\* 64: build_index(..).await?; a failed build leaves the directory
IndexBuild ==
    /\ step = "index_build"
    /\ \E ok \in IF importFile = "conversations" THEN BOOLEAN ELSE {FALSE} :
           /\ calls' = Called("build_index", ok)
           /\ step' = Try(ok, "open")
           /\ indexDir' = IF ok THEN "index" ELSE indexDir
    /\ ret' = Returned(step')
    /\ UNCHANGED <<mainVars, walkVars, genVars, importFile, events, config, dist,
                   before>>

\* 71: SearchEngine::new(..)?, which opens the index of the directory
EngineOpen ==
    /\ step = "open"
    /\ \E ok \in IF indexDir = "index" THEN BOOLEAN ELSE {FALSE} :
           /\ calls' = Called("SearchEngine::new", ok)
           /\ step' = Try(ok, "serve")
    /\ ret' = Returned(step')
    /\ UNCHANGED <<mainVars, walkVars, genVars, importFile, events, config, dist,
                   indexDir, before>>

\* 82: server::serve(..).await?: the listener is bound, or the error returned
Serve ==
    /\ step = "serve"
    /\ \E ok \in BOOLEAN :
           /\ calls' = Called("serve", ok)
           /\ step' = Try(ok, "serving")
    /\ ret' = Returned(step')
    /\ UNCHANGED <<mainVars, walkVars, genVars, importFile, events, config, dist,
                   indexDir, before>>

BootNext ==
    \/ SiteCheck
    \/ SiteDir
    \/ SiteGenerate
    \/ IndexCheck
    \/ IndexDirCreate
    \/ IndexBuild
    \/ EngineOpen
    \/ Serve

BootSpec == BootInit /\ [][BootNext]_vars

----------------------------------------------------------------------------
(* The desktop application from its first start: the embedded server, then
   imports *)

\* tauri.rs 238-288, no conversations file configured and no index directory:
\* main creates the empty directory, SearchEngine::new fails on it, build_index
\* on the file "[]" commits an index without documents and the second
\* SearchEngine::new gives the engine the server keeps
TauriStartup ==
    /\ pc = "idle"
    /\ ~engine.open
    /\ ~disk.exists
    /\ disk' = [exists |-> TRUE, meta |-> Meta(Schema, <<>>), files |-> FALSE]
    /\ engine' = NewEngine(disk')
    /\ resp' = Reply("new", "Ok")
    /\ UNCHANGED <<otherVars, input, site, pc, idx, writer, openedBefore>>

\* the queries of the requests to the embedded server
ReloadQueries == {<<"a", "b">>, <<"a", "a">>}

ReloadNext ==
    \/ TauriStartup
    \/ StartImport
    \/ CleanIndex
    \/ UnlinkMeta
    \/ UnlinkSegments
    \/ Rmdir
    \/ Begin
    \/ CreateIndex
    \/ \E t \in 1..NumThreads : AddDocument(t)
    \/ Commit
    \/ \E q \in ReloadQueries : SearchHandler(q, None)
    \/ Return

ReloadSpec == Init /\ [][ReloadNext]_vars

----------------------------------------------------------------------------
(* The search test: build_index on a file, SearchEngine::new, searches *)

TestInit ==
    /\ WalkIdle
    /\ GenIdle
    /\ AppIdle
    /\ input \in TestInputs
    /\ site = <<>>
    /\ disk = NoDir
    /\ pc = "idle"
    /\ idx = 0
    /\ writer = NoWriter
    /\ engine = NoEngine
    /\ openedBefore = FALSE
    /\ resp = NoResp

TestNext ==
    \/ StartupBuild
    \/ Begin
    \/ CreateIndex
    \/ \E t \in 1..NumThreads : AddDocument(t)
    \/ Commit
    \/ EngineNew
    \/ \E q \in TestQueries, limit \in {1, TestLimit} : EngineSearch(q, limit)
    \/ Return

TestSpec == TestInit /\ [][TestNext]_vars

----------------------------------------------------------------------------
(* What the claims speak of *)

IsSearch == resp.op \in {"search", "api", "tauri"}

\* the engine of the call resp answers
Caller == IF resp.op = "tauri" THEN NewEngine(disk) ELSE engine

\* the documents of the committed index, in address order
Indexed == IF disk.meta.present THEN Flatten(disk.meta.segments) ELSE <<>>

\* build_index has returned Ok and no import is running
Built == pc = "idle" /\ disk.meta.present

InputIds == {Conv(input[i]).id : i \in {j \in DOMAIN input : Deserializes(Conv(input[j]))}}

ResultIds == {resp.results[i].conversation_id : i \in DOMAIN resp.results}

\* where a conversation stands in the input file
InputPos(id) == CHOOSE i \in DOMAIN input : Conv(input[i]).id = id

\* where a conversation stands in the results
ResultPos(id) == CHOOSE i \in DOMAIN resp.results : resp.results[i].conversation_id = id

\* the contiguous runs of 2 to 10 code points of a text
Grams(text) ==
    {SubSeq(text, p[1], p[1] + p[2] - 1) :
        p \in {r \in (1..Len(text)) \X (2..10) : r[1] + r[2] - 1 <= Len(text)}}

\* the words of the query of resp, lower-cased
QueryWords == Range(Words(ToLowercase(resp.q)))

\* a word is found in a field text: every run of 2 to 10 code points of the
\* word, and at least one, occurs in the text as the index lower-cases it
WordIn(word, text) ==
    /\ Grams(word) # {}
    /\ \A g \in Grams(word) : IsSubstring(g, LowerCaser(text))

\* the documents in which some word of the query is found in the title or in
\* the content
Matching ==
    {i \in DOMAIN Indexed :
        \E w \in QueryWords : WordIn(w, Indexed[i].title) \/ WordIn(w, Indexed[i].content)}

MatchingIds == {Indexed[i].conversation_id : i \in Matching}

----------------------------------------------------------------------------
(* C1 *)

\* C1: substring completeness.  After build_index succeeded, a search with a
\* query that is exactly a run of 2 to 10 code points of the title or of the
\* content of an indexed conversation, and a limit of at least the number of
\* indexed conversations, returns that conversation.
C1_SubstringCompleteness ==
    (resp.op = "search" /\ Built /\ resp.limit >= Len(Indexed))
    => \A i \in DOMAIN Indexed :
          ( /\ Len(resp.q) >= 2
            /\ Len(resp.q) <= 10
            /\ IsSubstring(resp.q, Indexed[i].title) \/ IsSubstring(resp.q, Indexed[i].content) )
          => /\ resp.outcome = "Ok"
             /\ Indexed[i].conversation_id \in ResultIds

----------------------------------------------------------------------------
(* C2 *)

\* an import is inside its build_index call, the directory made and the index
\* not yet committed
Building == pc \in {"create", "add"}

\* C2: atomic visibility of a build.  At every point of a build_index run, a
\* reader that opens the index path and searches either fails to open the
\* index or sees every conversation of the input.
C2_AtomicVisibility ==
    (resp.op = "tauri" /\ Building)
    => \/ resp.outcome = "Err"
       \/ {resp.visible[i] : i \in DOMAIN resp.visible} = InputIds

----------------------------------------------------------------------------
(* C3 *)

\* an import is between its removal of the old index and its commit
Rebuilding == pc \notin {"idle", "cleanup"}

\* C3: a rebuild never disturbs queries.  Every search on an engine opened
\* before the rebuild returns Ok, and what it searched is the old snapshot or
\* the new one (both hold every conversation of the input).
C3_RebuildKeepsQueriesOk ==
    (resp.op = "search" /\ openedBefore /\ Rebuilding /\ resp.limit > 0)
    => /\ resp.outcome = "Ok"
       /\ {resp.visible[i] : i \in DOMAIN resp.visible} = InputIds

----------------------------------------------------------------------------
(* C4 *)

\* the documents that hold at least one n-gram of at least one word of the
\* query in the title or in the content
AnyGramIds ==
    {Indexed[i].conversation_id : i \in
        {i \in DOMAIN Indexed :
            \E w \in QueryWords : \E g \in Grams(w) :
                \/ IsSubstring(g, ToLowercase(Indexed[i].title))
                \/ IsSubstring(g, ToLowercase(Indexed[i].content))}}

\* a search that returned Ok with a limit that does not truncate
Untruncated == IsSearch /\ resp.outcome = "Ok" /\ resp.limit >= Len(Indexed)

\* C4 as stated: the result set is the union over every word and every n-gram
\* of the word of the documents that contain that n-gram in a field.
C4_UnionOverNgrams == Untruncated => ResultIds = AnyGramIds

\* C4, amended: the result set is the union, over every word of the query and
\* over the title and the content field, of the documents whose field
\* contains every n-gram of that word; one word found in one field suffices.
C4_UnionOverWordsAndFields == Untruncated => ResultIds = MatchingIds

\* a two-word query returned a document in which only one of the words is found
C4_Witness ==
    /\ Untruncated
    /\ Cardinality(QueryWords) = 2
    /\ \E i \in Matching :
          /\ Indexed[i].conversation_id \in ResultIds
          /\ \E w \in QueryWords :
                ~WordIn(w, Indexed[i].title) /\ ~WordIn(w, Indexed[i].content)

----------------------------------------------------------------------------
(* C5 *)

\* C5: the results are sorted by non-increasing score, and results of equal
\* score stand in the order of their conversations in the input file.
C5_ScoreThenInsertionOrder ==
    (IsSearch /\ resp.outcome = "Ok")
    => \A i, j \in DOMAIN resp.results :
          i < j =>
             /\ resp.results[i].score >= resp.results[j].score
             /\ resp.results[i].score = resp.results[j].score
                => InputPos(resp.results[i].conversation_id)
                   < InputPos(resp.results[j].conversation_id)

----------------------------------------------------------------------------
(* C6 *)

\* the ranking of the query of resp without truncation
FullRanking ==
    Search(Caller, disk, resp.q, Len(Indexed) + 1).results

\* C6: for a positive limit L, search returns exactly min(L, number of
\* matching documents) results, and they are the first L of the full ranking.
C6_Limit ==
    (IsSearch /\ resp.outcome = "Ok" /\ resp.limit > 0)
    => /\ Len(resp.results) = Min(resp.limit, Cardinality(Matching))
       /\ resp.results = Take(FullRanking, resp.limit)

\* limit 1 against a query that several conversations match: the one result
\* is the top-scored one
C6_Witness ==
    /\ IsSearch
    /\ resp.outcome = "Ok"
    /\ resp.limit = 1
    /\ Cardinality(Matching) >= 2
    /\ Len(resp.results) = 1
    /\ \A k \in DOMAIN FullRanking : resp.results[1].score >= FullRanking[k].score

----------------------------------------------------------------------------
(* C7 *)

\* C7: a search whose limit is missing or 0 runs with limit 20, through the
\* API handler and through SearchEngine::search, and does not panic or fail
\* because of the limit.
C7_LimitFallback ==
    ( \/ resp.op = "api" /\ (~resp.param.some \/ resp.param.v = 0)
      \/ resp.op = "search" /\ resp.limit = 0 )
    => /\ resp.outcome # "Panic"
       /\ ReaderOk(disk) =>
             /\ resp.outcome = "Ok"
             /\ resp.results = Search(engine, disk, resp.q, 20).results

----------------------------------------------------------------------------
(* C8 *)

\* the one word of the query of resp, if it is one word
TheWord == CHOOSE w \in QueryWords : TRUE

\* the word is in the title of a and not in its content, in the content of b
\* and not in its title, as often in the one as in the other, and everything
\* else the score reads is equal: the lengths of the two fields, and per field
\* the number of tokens of the index and the document frequency of each term
TitleVersusContent(a, b, word) ==
    LET docs == Indexed
    IN  /\ WordIn(word, docs[a].title) /\ ~WordIn(word, docs[a].content)
        /\ WordIn(word, docs[b].content) /\ ~WordIn(word, docs[b].title)
        /\ \A g \in Grams(word) :
              /\ DocTermFreq(docs[a], "title", g) = DocTermFreq(docs[b], "content", g)
              /\ DocFreq(docs, "title", g) = DocFreq(docs, "content", g)
        /\ DocFieldLen(docs[a], "title") = DocFieldLen(docs[b], "content")
        /\ TotalTokens(docs, "title") = TotalTokens(docs, "content")

\* C8: title boost.  If the term of the query is only in the title of A and
\* only in the content of B, as often, with everything else equal, A is ranked
\* strictly before B.
C8_TitleBoost ==
    (Untruncated /\ Cardinality(QueryWords) = 1)
    => \A a, b \in DOMAIN Indexed :
          TitleVersusContent(a, b, TheWord)
          => /\ Indexed[a].conversation_id \in ResultIds
             /\ Indexed[b].conversation_id \in ResultIds
             /\ ResultPos(Indexed[a].conversation_id)
                < ResultPos(Indexed[b].conversation_id)
             /\ resp.results[ResultPos(Indexed[a].conversation_id)].score
                > resp.results[ResultPos(Indexed[b].conversation_id)].score

\* such a pair was searched, with B before A in the index
C8_Witness ==
    /\ Untruncated
    /\ Cardinality(QueryWords) = 1
    /\ \E a, b \in DOMAIN Indexed :
          /\ b < a
          /\ TitleVersusContent(a, b, TheWord)
          /\ resp.results[1].conversation_id = Indexed[a].conversation_id

----------------------------------------------------------------------------
(* C9 *)

\* the stored content of the conversation of a result
ContentOf(id) ==
    Indexed[CHOOSE i \in DOMAIN Indexed : Indexed[i].conversation_id = id].content

\* C9: snippet bound.  A content of at most 200 code points is the snippet
\* unchanged; a longer one gives its first 200 code points followed by "...".
\* So a snippet has at most 203 code points.
C9_SnippetBound ==
    (IsSearch /\ resp.outcome = "Ok")
    => \A i \in DOMAIN resp.results :
          LET content == ContentOf(resp.results[i].conversation_id)
              snippet == resp.results[i].snippet
          IN  /\ Len(content) <= 200 => snippet = content
              /\ Len(content) > 200
                 => snippet = SubSeq(content, 1, 200) \o <<".", ".", ".">>
              /\ Len(snippet) <= 203

\* a result with a truncated snippet
C9_Witness ==
    /\ IsSearch
    /\ resp.outcome = "Ok"
    /\ \E i \in DOMAIN resp.results :
          /\ Len(ContentOf(resp.results[i].conversation_id)) = 201
          /\ Len(resp.results[i].snippet) = 203

----------------------------------------------------------------------------
(* C10 *)

\* n-grams of 2 to 10 code points from every start, lower-cased
TwoToTenGrams == [min_gram |-> 2, max_gram |-> 10, prefix_only |-> FALSE, lower |-> TRUE]

\* the handle has the analyzer under "ngram2", and the text fields use it
HasParity(eng) ==
    /\ "ngram2" \in DOMAIN eng.tokenizers
    /\ "ngram2" \in DOMAIN writer.tokenizers
    /\ eng.tokenizers["ngram2"] = writer.tokenizers["ngram2"]
    /\ eng.tokenizers["ngram2"] = TwoToTenGrams
    /\ eng.schema.title = "ngram2"
    /\ eng.schema.content = "ngram2"
    /\ \A i \in DOMAIN Indexed : \A f \in {"title", "content"} :
          Indexed[i].analyzer[f] = eng.tokenizers[eng.schema[f]]

----------------------------------------------------------------------------
(* C11 *)

\* the strings got from q by changing the case of any of its letters
CaseVariants(q) ==
    {v \in [DOMAIN q -> {Lower(q[i]) : i \in DOMAIN q} \cup {Upper(q[i]) : i \in DOMAIN q}
                                                       \cup Range(q)] :
        \A i \in DOMAIN q : v[i] \in {q[i], Lower(q[i]), Upper(q[i])}}

\* C11: case-insensitivity.  For a query that matches, every string got from
\* it by changing the case of letters returns the same set of conversation
\* ids against the same index.
C11_CaseInsensitive ==
    (Untruncated /\ ResultIds # {})
    => \A v \in CaseVariants(resp.q) :
          Range(Ids(Search(Caller, disk, v, resp.limit).results)) = ResultIds

----------------------------------------------------------------------------
(* C12 *)

\* the conversation of the input an indexed document was made from
SourceOf(doc) ==
    Conv(input[CHOOSE i \in DOMAIN input : Conv(input[i]).id = doc.conversation_id])

\* the keys of the nodes in depth-first pre-order from a list of child ids,
\* each children array in array order; an id that is no key of the mapping, or
\* no string, is passed over
RECURSIVE PreOrder(_, _)
PreOrder(mapping, ids) ==
    IF ids = <<>> THEN <<>>
    ELSE LET id == Head(ids)
             here ==
                 IF id.t = "str" /\ id.id \in DOMAIN mapping
                 THEN <<id.id>> \o
                      (IF JHasArr(mapping[id.id], "children")
                       THEN PreOrder(mapping, JGet(mapping[id.id], "children").a)
                       ELSE <<>>)
                 ELSE <<>>
         IN  here \o PreOrder(mapping, Tail(ids))

\* the fragment contents of a node that has a message, in array order
NodeTexts(node) ==
    IF JHas(node, "message") /\ JHasArr(JGet(node, "message"), "fragments")
    THEN LET frs == JGet(JGet(node, "message"), "fragments").a
             withText == {f \in DOMAIN frs : JHasStr(frs[f], "content")}
             nth(j) == CHOOSE f \in withText :
                          Cardinality({g \in withText : g <= f}) = j
         IN  [j \in 1..Cardinality(withText) |-> JGet(frs[nth(j)], "content").v]
    ELSE <<>>

\* the nodes a conversation's traversal visits, from the children of "root"
VisitOrder(conv) ==
    IF conv.mapping.t = "obj" /\ JHas(conv.mapping, "root")
       /\ JHasArr(JGet(conv.mapping, "root"), "children")
    THEN PreOrder(conv.mapping.o, JGet(JGet(conv.mapping, "root"), "children").a)
    ELSE <<>>

\* the fragment contents of the visited nodes, in visiting order
TextsInOrder(conv) ==
    LET order == VisitOrder(conv)
    IN  Flatten([n \in DOMAIN order |-> NodeTexts(conv.mapping.o[order[n]])])

\* each text followed by one space
SpaceTerminated(texts) == Flatten([t \in DOMAIN texts |-> texts[t] \o <<" ">>])

\* C12: extraction result.  The content of every indexed conversation is the
\* concatenation, in depth-first pre-order from the children of "root", of
\* every fragment content of every visited node that has a message, each
\* followed by one space; unknown and non-string child ids add nothing and do
\* not stop the traversal of their siblings.
C12_ExtractionResult ==
    \A i \in DOMAIN Indexed :
        Indexed[i].content = SpaceTerminated(TextsInOrder(SourceOf(Indexed[i])))

\* an indexed conversation with a child before a sibling and an unknown child
\* id between two siblings
C12_Witness ==
    \E i \in DOMAIN Indexed :
        /\ Indexed[i].conversation_id = "7"
        /\ Indexed[i].content = <<"b", " ", " ", "c", " ", "a", " ">>

----------------------------------------------------------------------------
(* C13 *)

\* the fragment contents of the messages on the page of a conversation
PageTexts(conv) ==
    LET messages == extract_and_render_messages(conv.mapping)
    IN  [m \in DOMAIN messages |-> messages[m].content]

\* a conversation has a page and a document
Published(doc) == \E p \in DOMAIN site : Conv(site[p]).id = doc.conversation_id

\* the texts that are not empty, in order
NonEmpty(texts) ==
    LET keep == {t \in DOMAIN texts : texts[t] # <<>>}
        nth(j) == CHOOSE t \in keep : Cardinality({u \in keep : u <= t}) = j
    IN  [j \in 1..Cardinality(keep) |-> texts[nth(j)]]

\* the maximal runs of a text without white space, in order
Runs(text) ==
    LET starts == {i \in DOMAIN text :
                      ~IsWhitespace(text[i]) /\ (i = 1 \/ IsWhitespace(text[i - 1]))}
        end(i) == CHOOSE j \in i..Len(text) :
                      /\ \A k \in i..j : ~IsWhitespace(text[k])
                      /\ (j = Len(text) \/ IsWhitespace(text[j + 1]))
        nth(n) == CHOOSE i \in starts : Cardinality({u \in starts : u <= i}) = n
    IN  [n \in 1..Cardinality(starts) |-> SubSeq(text, nth(n), end(nth(n)))]

\* C13 as stated: the fragment texts appended to the indexed content are
\* exactly the fragment contents of the messages rendered for the page, same
\* fragments in the same order, none in the one and not in the other.
C13_SameFragments ==
    \A i \in DOMAIN Indexed :
        Published(Indexed[i])
        => Indexed[i].content = SpaceTerminated(PageTexts(SourceOf(Indexed[i])))

\* C13, amended: the two traversals visit the same nodes in the same order
\* with the same skipping of unknown ids, and the non-empty fragment texts
\* appended to the indexed content are exactly the non-empty fragment contents
\* rendered, in the same order (the texts of the model hold no white space, so
\* the runs of the content are its non-empty texts).
C13_SameNonEmptyTexts ==
    \A i \in DOMAIN Indexed :
        Published(Indexed[i])
        => Runs(Indexed[i].content) = NonEmpty(PageTexts(SourceOf(Indexed[i])))

\* a conversation with a fragment that has no content is on the site, with a
\* message for that fragment, and in the index
C13_Witness ==
    \E i \in DOMAIN Indexed :
        /\ Published(Indexed[i])
        /\ Indexed[i].conversation_id = "4"
        /\ Len(PageTexts(SourceOf(Indexed[i]))) = 3
        /\ Runs(Indexed[i].content) = << <<"a", "a">>, <<"b">> >>

----------------------------------------------------------------------------
(* C14 *)

\* the ids of the documents of the index on disk
IndexedIds == {Indexed[i].conversation_id : i \in DOMAIN Indexed}

\* C14: malformed input never aborts the build.  build_index returns an error
\* only on a storage failure; with a malformed conversation in the input it
\* returns Ok and has indexed every other conversation.
C14_MalformedNeverAborts ==
    resp.op = "build"
    => /\ resp.outcome = "Err" => resp.error = "io::Error"
       /\ resp.outcome = "Ok" => IndexedIds = InputIds

----------------------------------------------------------------------------
(* C15 *)

\* C15: a failed build leaves nothing visible.  When build_index has returned
\* an error, the index path holds no index that SearchEngine::new can open,
\* or the index it holds has every conversation of the input.
C15_FailedBuildLeavesNothing ==
    (resp.op = "build" /\ resp.outcome = "Err" /\ CanOpen(disk))
    => IndexedIds = InputIds

----------------------------------------------------------------------------
(* C16 *)

\* a call of SearchEngine::new has returned: the server's, or the one of the
\* Tauri search command on a path it could not open
NewReturned == resp.op = "new" \/ (resp.op = "tauri" /\ ~CanOpen(disk))

\* C16: opening a store.  SearchEngine::new never panics; on a path that does
\* not exist it returns the error that names the directory as missing, on a
\* directory without a readable index another error, and after either the
\* caller has no engine and can rebuild and call new again.
C16_OpenErrors ==
    NewReturned
    => /\ resp.outcome \in {"Ok", "Err"}
       /\ ~disk.exists
          => resp.outcome = "Err" /\ resp.error = "OpenDirectoryError::DoesNotExist"
       /\ (disk.exists /\ ~disk.meta.present)
          => /\ resp.outcome = "Err"
             /\ resp.error = "OpenReadError::FileDoesNotExist"
             /\ resp.error # "OpenDirectoryError::DoesNotExist"
       /\ (resp.op = "new" /\ resp.outcome = "Err") => ~engine.open /\ pc = "idle"

\* the server's SearchEngine::new failed on a directory that holds no index
C16_Witness ==
    /\ resp.op = "new"
    /\ resp.outcome = "Err"
    /\ disk.exists
    /\ ~disk.meta.present

----------------------------------------------------------------------------
(* C17 *)

\* the conversation of the input a result stands for
SourceOfResult(r) ==
    Conv(input[CHOOSE i \in DOMAIN input : Conv(input[i]).id = r.conversation_id])

\* C17: missing-field tolerance.  A conversation without a title is returned
\* with the title "Untitled", one without inserted_at with an empty date.
C17_MissingFields ==
    (IsSearch /\ resp.outcome = "Ok")
    => \A k \in DOMAIN resp.results :
          LET r == resp.results[k]
              conv == SourceOfResult(r)
          IN  /\ ~conv.title.some
                 => r.title = <<"U", "n", "t", "i", "t", "l", "e", "d">>
              /\ ~conv.inserted_at.some => r.date = <<>>

----------------------------------------------------------------------------
(* C18 *)

\* C18: empty query.  Against a committed index, SearchEngine::search("", limit)
\* with a positive limit returns Ok with an empty result list.
C18_EmptyQuery ==
    (resp.op = "search" /\ resp.q = <<>> /\ resp.limit > 0 /\ ReaderOk(disk))
    => resp.outcome = "Ok" /\ resp.results = <<>>

\* the empty query was searched in an index that holds conversations
C18_Witness ==
    /\ resp.op = "search"
    /\ resp.q = <<>>
    /\ resp.limit > 0
    /\ resp.outcome = "Ok"
    /\ Built
    /\ Indexed # <<>>

----------------------------------------------------------------------------
(* C19 *)

\* C19: a request to the search API whose q is blank or absent is answered
\* with a successful response that carries an empty results list.
C19_BlankOrAbsentQuery ==
    (resp.op = "api" /\ (~resp.qgiven \/ \A k \in DOMAIN resp.q : IsWhitespace(resp.q[k]))
        /\ ReaderOk(disk) /\ resp.param # Some(0))
    => resp.outcome = "Ok" /\ resp.results = <<>>

----------------------------------------------------------------------------
(* C20 *)

\* C20: no query syntax errors.  For every query string, search on an opened
\* index returns Ok: no query text makes query parsing fail, and the API
\* handler never answers with an internal error because of the query text.
C20_NoQuerySyntaxErrors ==
    (IsSearch /\ ReaderOk(disk) /\ resp.param # Some(0) /\ resp.qgiven)
    => resp.outcome = "Ok"

----------------------------------------------------------------------------
(* C21 *)

\* the ways the indexing threads can share the documents of a file of n
\* conversations: document i goes to thread a[i]
ThreadChoices(n) == [1..n -> 1..NumThreads]

\* the segments build_index commits from a file under such a choice
SegmentsOf(file, a) ==
    LET toks == Register(NoTokenizers, "ngram2", IndexNgramTokenizer)
        mine(t) == {i \in DOMAIN file : a[i] = t}
        nth(t, k) == CHOOSE i \in mine(t) : Cardinality({j \in mine(t) : j <= i}) = k
    IN  Written([t \in 1..NumThreads |->
            [k \in 1..Cardinality(mine(t)) |->
                Document(Conv(file[nth(t, k)]), nth(t, k) - 1, toks)]])

\* the index directory after the old index was deleted and build_index ran on
\* the file
RebuiltDisk(file, a) ==
    [exists |-> TRUE, meta |-> Meta(Schema, SegmentsOf(file, a)),
     files |-> SegmentsOf(file, a) # <<>>]

\* the index on disk is a finished build of the input
Complete == Built /\ Len(Indexed) = Len(input)

\* C21: idempotent rebuild.  After the index was built from the input, every
\* rebuild from the same input answers a repeated query with the same ranked
\* list: same ids, same order, same scores and snippets.
C21_IdempotentRebuild ==
    (IsSearch /\ Complete /\ resp.outcome = "Ok")
    => \A a \in ThreadChoices(Len(input)) :
          Search(Caller, RebuiltDisk(input, a), resp.q, resp.limit).results = resp.results

----------------------------------------------------------------------------
(* C22 *)

\* the file without its k-th conversation
Without(file, k) == SubSeq(file, 1, k - 1) \o SubSeq(file, k + 1, Len(file))

\* C22: a rebuild reflects deletions.  After a conversation is removed from the
\* input and the index rebuilt, no query returns its id, and every other
\* conversation a query returned before has the same score as before.
C22_RebuildReflectsDeletions ==
    (IsSearch /\ Complete /\ resp.outcome = "Ok")
    => \A k \in DOMAIN input : \A a \in ThreadChoices(Len(input) - 1) :
          LET after == Search(Caller, RebuiltDisk(Without(input, k), a),
                              resp.q, resp.limit).results
          IN  /\ \A j \in DOMAIN after :
                    after[j].conversation_id # Conv(input[k]).id
              /\ \A i \in DOMAIN resp.results : \A j \in DOMAIN after :
                    after[j].conversation_id = resp.results[i].conversation_id
                    => after[j].score = resp.results[i].score

----------------------------------------------------------------------------
(* C24 *)

\* the file of the search test is indexed
TestIndexed == input = <<"Gravity", "Rules", "Formulas">> /\ Complete

\* C24: scenario precision.  With the three conversations of the test indexed,
\* the query "грав" returns the first conversation and no other: the second,
\* which has only the n-grams "ра", "ав" and "рав" of the query, is not
\* returned.
C24_ScenarioPrecision ==
    (resp.op = "search" /\ TestIndexed /\ resp.q = Cyr(<<"g", "r", "a", "v">>))
    => /\ resp.outcome = "Ok"
       /\ Ids(resp.results) = <<"1">>

\* "грав" was searched with the limit of the test, and the second conversation
\* does hold the shorter n-grams of the query
C24_Witness ==
    /\ resp.op = "search"
    /\ TestIndexed
    /\ resp.q = Cyr(<<"g", "r", "a", "v">>)
    /\ resp.limit = TestLimit
    /\ resp.outcome = "Ok"
    /\ \E i \in DOMAIN Indexed :
          /\ Indexed[i].conversation_id = "2"
          /\ \A g \in {Cyr(<<"r", "a">>), Cyr(<<"a", "v">>), Cyr(<<"r", "a", "v">>)} :
                IsSubstring(g, LowerCaser(Indexed[i].content))

----------------------------------------------------------------------------
(* C30 *)

\* the mapping of a conversation holds no tree to walk: it is no object, has
\* no "root", or its root has no children array
NoTree(conv) ==
    ~( /\ conv.mapping.t = "obj"
       /\ JHas(conv.mapping, "root")
       /\ JHasArr(JGet(conv.mapping, "root"), "children") )

\* the documents of a conversation of the input in the committed index
DocsOf(i) == {k \in DOMAIN Indexed : Indexed[k].conversation_id = Conv(input[i]).id}

\* the content of each document is what the walk of its own conversation's
\* mapping yields, and nothing if the mapping holds no tree
OwnContent ==
    \A k \in DOMAIN Indexed :
        /\ Indexed[k].content = SpaceTerminated(TextsInOrder(SourceOf(Indexed[k])))
        /\ NoTree(SourceOf(Indexed[k])) => Indexed[k].content = <<>>

----------------------------------------------------------------------------
(* C23 *)

\* the import has generated the site and its rebuild of the index has
\* committed
Imported == site = input /\ Complete

\* C23: reload without reopening.  Once a rebuild of the index has committed,
\* a search on the engine the server has held since its start returns Ok with
\* results computed from the new commit: the ones an engine opened now would
\* return.
C23_ReloadWithoutReopening ==
    (resp.op = "api" /\ engine.open /\ Imported)
    => /\ resp.outcome = "Ok"
       /\ resp.visible = Ids(Indexed)
       /\ resp.results = Search(NewEngine(disk), disk, resp.q, resp.limit).results

\* the engine made on the empty index of the first start returned a
\* conversation of the import
C23_Witness ==
    /\ resp.op = "api"
    /\ engine.open
    /\ Imported
    /\ resp.outcome = "Ok"
    /\ resp.results # <<>>

----------------------------------------------------------------------------
(* C25 *)

\* the nodes a node names as children
Kids(n) ==
    IF JHasArr(tree.o[n], "children")
    THEN LET a == JGet(tree.o[n], "children").a
         IN  {a[j].id : j \in {k \in DOMAIN a : Known(a[k])}}
    ELSE {}

\* the nodes reached from a set of nodes by following children
RECURSIVE Closure(_)
Closure(N) ==
    LET more == N \cup UNION {Kids(n) : n \in N}
    IN  IF more = N THEN N ELSE Closure(more)

\* the children relation, followed from "root", never comes back to a node
Acyclic == \A n \in Closure(Kids("root")) : n \notin Closure(Kids(n))

\* the walk has returned to build_index
Walked == frames = <<>>

\* C25: extraction terminates.  For every mapping whose children relation,
\* followed from "root", is acyclic, extract_messages terminates; on a mapping
\* with a cycle, which the code does not check for, it never returns.
C25_ExtractionTerminates ==
    /\ Acyclic => <>Walked
    /\ ~Acyclic => [](~Walked)

\* the walk of an acyclic mapping that visits a node along two paths has
\* returned with the content extract_messages yields
C25_Witness ==
    /\ Walked
    /\ tree # JNull
    /\ Acyclic
    /\ Len(buffer) >= 8
    /\ buffer = extract_messages(tree.o, JGet(JGet(tree, "root"), "children").a, <<>>)

----------------------------------------------------------------------------
(* C26 *)

\* the conversations whose closure call holds the lock and has not written
\* the counter yet
Counting == {w \in DOMAIN workers : workers[w].pc \in {"locked", "read"}}

\* the parallel phase is over: collect() has every result
Collected == workers # <<>> /\ remaining = 0 /\ \A w \in DOMAIN workers : workers[w].pc = "idle"

\* C26: progress counter under parallel generation.  In every interleaving of
\* the workers each conversation increments the counter exactly once and no
\* update is lost; the values logged are the multiples of 100 in strictly
\* increasing order; and when the parallel phase ends the counter equals the
\* number of conversations, whether or not conversations failed to render.
C26_ProgressCounter ==
    /\ counter = totalConvs - remaining - Cardinality(Counting)
    /\ \A k \in DOMAIN logged : logged[k] = k * LogEvery /\ logged[k] <= counter
    /\ Collected => counter = totalConvs /\ Len(logged) = totalConvs \div LogEvery

\* the phase ended on a file of MaxPages conversations, some of which gave no
\* page, after two lines were logged
C26_Witness ==
    /\ Collected
    /\ totalConvs = MaxPages
    /\ skipped
    /\ Len(logged) >= 2

----------------------------------------------------------------------------
(* C27 *)

\* s is a prefix of t
IsPrefix(s, t) == Len(s) <= Len(t) /\ \A i \in DOMAIN s : s[i] = t[i]

Succeeded(fn) == [fn |-> fn, ok |-> TRUE] \in Range(calls)

SomeFailed == \E i \in DOMAIN calls : ~calls[i].ok

\* C27: import progress protocol.  In every run of process_conversations_file
\* the events are emitted in the order 0, 20, 30, 70, 100; 70 only after
\* generate_site returned Ok and 100 only after build_index returned Ok; once
\* a step fails the command returns Err and emits no further event.
C27_ProgressProtocol ==
    /\ [](/\ IsPrefix(events, <<0, 20, 30, 70, 100>>)
          /\ 70 \in Range(events) => Succeeded("generate_site")
          /\ 100 \in Range(events) => Succeeded("build_index")
          /\ SomeFailed => ret = "Err"
          /\ ret = "Ok" => events = <<0, 20, 30, 70, 100>>)
    /\ [][ret = "Err" => events' = events /\ ret' = "Err"]_vars

\* the index could not be built: the command returned Err after the 70 event
C27_Witness ==
    /\ ret = "Err"
    /\ events = <<0, 20, 30, 70>>
    /\ calls # <<>>
    /\ calls[Len(calls)] = [fn |-> "build_index", ok |-> FALSE]

----------------------------------------------------------------------------
(* C28 *)

Invalid == importFile \in {"missing", "unreadable", "invalid"}

Finished == step \in {"failed", "returned"}

\* C28: import leaves state unchanged on validation failure.  If the file
\* does not exist, cannot be read or is not JSON, the command returns Err with
\* the saved configuration, the site and the index unchanged; the old site and
\* index are deleted only after the new path was saved to the configuration,
\* and the index only after generate_site succeeded.
C28_ValidationFailureFrame ==
    /\ Invalid => /\ config.saved = before.config
                  /\ dist = before.dist
                  /\ indexDir = before.indexDir
                  /\ Finished => ret = "Err"
    /\ (dist # before.dist \/ indexDir # before.indexDir) =>
           Succeeded("save") /\ config.saved = "new"
    /\ indexDir # before.indexDir => Succeeded("generate_site")

\* a file that is not JSON was refused while a configuration, a site and an
\* index of an earlier import exist
C28_Witness ==
    /\ importFile = "invalid"
    /\ ret = "Err"
    /\ calls # <<>>
    /\ calls[Len(calls)] = [fn |-> "from_str", ok |-> FALSE]
    /\ before = [config |-> "old", dist |-> "old", indexDir |-> "old"]
    /\ config.saved = "old" /\ dist = "old" /\ indexDir = "old"

----------------------------------------------------------------------------
(* C29 *)

\* the calls of fn, as places of the sequence of calls
CallsOf(fn) == {i \in DOMAIN calls : calls[i].fn = fn}

\* every call made before the first one of fn returned Ok
NoFailureBefore(fn) ==
    \A i \in CallsOf(fn) : \A j \in 1..(i - 1) : calls[j].ok

\* main has returned an error or the server listens
Booted == step \in {"failed", "serving"}

\* generate_site before build_index, each at most once
InOrder ==
    /\ Cardinality(CallsOf("generate_site")) <= 1
    /\ Cardinality(CallsOf("build_index")) <= 1
    /\ \A i \in CallsOf("generate_site") : \A j \in CallsOf("build_index") : i < j

\* the server listens only after SearchEngine::new succeeded; a failure makes
\* main return the error without serving
ServesAfterOpen ==
    /\ step = "serving" => Succeeded("SearchEngine::new")
    /\ SomeFailed => ret = "Err" /\ step = "failed"

====
